---- MODULE Spec2Model ----
(***************************************************************************)
(* Model of the devspace synchronisation engine: the file index, the four  *)
(* decision functions of the sync package (shouldRemoveRemote,             *)
(* shouldUpload, shouldDownload, shouldRemoveLocal) and the upstream and   *)
(* downstream pipelines that call them.                                    *)
(***************************************************************************)
EXTENDS Integers, FiniteSets, Sequences, TLC

(***************************************************************************)
(* Bounds of the model.                                                    *)
(***************************************************************************)
\* Mtimes are whole seconds 0..MaxTime.
MaxTime == 2
\* File sizes are 0..MaxSize bytes.
MaxSize == 1

\* Bounds of the dev command: config reloads in one run, and callbacks the
\* file watcher delivers in one startServices invocation.
MaxReloads == 1

MaxCallbacks == 2

\* Bound of the config files: override files of one config definition.
MaxOverrides == 1

\* Bound of a command's output: bytes written to stdout or to stderr.
MaxBytes == 2

\* Bound of an entrypoint override: its parts.
MaxEntrypoint == 2

\* Bounds of helm.NewClient: goroutines calling it, and calls in all.
MaxGoroutines == 2

MaxCalls == 4

\* Paths relative to the synchronised root.  The local file system is
\* indexed by the same names: absFilepath is the local root joined with the
\* relative name, so both name the same file.
Paths == {"a", "b"}

Times == 0 .. MaxTime
Sizes == 0 .. MaxSize

\* A nil pointer (nil *FileInformation, nil os.FileInfo, nil map entry).
Nil == [nil |-> TRUE]

(***************************************************************************)
(* time.Time of a local file: whole seconds plus a flag telling whether a  *)
(* sub-second part is present.  ModTime().Unix() drops the sub-second part.*)
(***************************************************************************)
ModTimes == [sec : Times, frac : BOOLEAN]

UnixRoundUp(t) == IF t.frac THEN t.sec + 1 ELSE t.sec

Unix(t) == t.sec

(***************************************************************************)
(* FileInformation: the value type of fileIndex.fileMap, also used as the  *)
(* pending snapshot of a remote-driven local deletion.                     *)
(***************************************************************************)
FileInformation ==
    [Name : Paths, Mtime : Times, Size : Sizes,
     IsDirectory : BOOLEAN, IsSymbolicLink : BOOLEAN]

FileInformationOf(p) == {f \in FileInformation : f.Name = p}

\* remote.Change as read by shouldDownload.
Change == [Path : Paths, MtimeUnix : Times, Size : Sizes, IsDir : BOOLEAN]

\* os.FileInfo as read by the decision functions: ModTime(), Size() and the
\* mode bits: "dir" is IsDir(), "symlink" is Mode()&os.ModeSymlink != 0.
FileInfo == [ModTime : ModTimes, Size : Sizes, Mode : {"file", "dir", "symlink"}]

(***************************************************************************)
(* The local file system, per path: absent, not stat-able (an error other  *)
(* than "does not exist"), or an entry.  link tells that the path itself   *)
(* is a symbolic link to the described file or directory: os.Stat follows  *)
(* it, Lstat reports the link.                                             *)
(***************************************************************************)
NotExist == [err |-> "ENOENT"]
StatFailure == [err |-> "EACCES"]
LocalEntry == [ModTime : ModTimes, Size : Sizes, Mode : {"file", "dir"}, link : BOOLEAN]
LocalState == {NotExist, StatFailure} \cup LocalEntry

\* An ignore matcher: a nil pointer, or a compiled pattern set, given by the
\* set of paths it matches.
NilMatcher == [isNil |-> TRUE, paths |-> {}]
Matcher(S) == [isNil |-> FALSE, paths |-> S]
MatchesPathAny(m, relativePath) == m.paths # {}

MatchesPath(m, relativePath) == relativePath \in m.paths

VARIABLES
    fileMap,              \* s.fileIndex.fileMap: path -> FileInformation or Nil
    ignoreMatcher,        \* s.ignoreMatcher
    uploadIgnoreMatcher,  \* s.uploadIgnoreMatcher
    localFS,              \* the local file system: path -> LocalState
    call,                 \* the last evaluation of a decision function
    state,                \* the state of the sync session
    mutex,                \* the holder of the fileIndex lock, or "none"
    transfers,            \* the transfers in flight
    removeQueue,          \* the queued local deletions: pending snapshots
    remoteFS              \* the remote file system: path -> RemoteState

\* The parts of the program outside the sync engine, one variable each, a
\* record of the part's state while the part runs and "idle" otherwise.
VARIABLES
    session,      \* the caller's side of the sync session: waitInitialSync,
                  \* startCall, transport, statusChannel, diagnostics
    dev,          \* devspace dev: cmd (flags), config, pc, steps, result,
                  \* servicesErr, portForwarder, syncClient, watcher, once,
                  \* callbacks, reloadSends, reloads
    configutil,   \* package configutil: files, config, getConfigOnce,
                  \* validateOnce, returned, calls, process
    kubectl,      \* kubectl.ExecBuffered: input, return
    kaniko,       \* kaniko Builder.BuildImage: args, pc, dockerfilePath,
                  \* blockDockerfilePath, tempDir, buildPod, copied, err
    helm          \* helm.NewClient: helmClientsMutex, helmClients, pc,
                  \* tillerNamespace, return, creations, calls

SessionIdle == session = "idle"

DevIdle == dev = "idle"

ConfigutilIdle == configutil = "idle"

KubectlIdle == kubectl = "idle"

KanikoIdle == kaniko = "idle"

HelmIdle == helm = "idle"

\* The variables of the sync engine, and the variables outside it.
syncVars == <<fileMap, ignoreMatcher, uploadIgnoreMatcher, localFS, call,
              state, mutex, transfers, removeQueue, remoteFS>>

\* No decision function was evaluated.
NoCall == [fn |-> "none"]

\* The sync engine at rest.
SyncIdle ==
    /\ fileMap = [p \in Paths |-> Nil]
    /\ ignoreMatcher = NilMatcher
    /\ uploadIgnoreMatcher = NilMatcher
    /\ localFS = [p \in Paths |-> NotExist]
    /\ call = NoCall
    /\ state = "Initializing"
    /\ mutex = "none"
    /\ transfers = {}
    /\ removeQueue = {}
    /\ remoteFS = [p \in Paths |-> NotExist]

nonSyncVars == <<session, dev, configutil, kubectl, kaniko, helm>>

NonSyncIdle ==
    /\ SessionIdle
    /\ DevIdle
    /\ ConfigutilIdle
    /\ KubectlIdle
    /\ KanikoIdle
    /\ HelmIdle

\* What each part of the model leaves alone besides its own variable, and
\* the state that rest is in meanwhile.
notSessionVars == <<dev, configutil, kubectl, kaniko, helm>>

NotSessionIdle ==
    /\ DevIdle
    /\ ConfigutilIdle
    /\ KubectlIdle
    /\ KanikoIdle
    /\ HelmIdle

notDevVars == <<syncVars, session, configutil, kubectl, kaniko, helm>>

NotDevIdle ==
    /\ SyncIdle
    /\ SessionIdle
    /\ ConfigutilIdle
    /\ KubectlIdle
    /\ KanikoIdle
    /\ HelmIdle

notConfigutilVars == <<syncVars, session, dev, kubectl, kaniko, helm>>

NotConfigutilIdle ==
    /\ SyncIdle
    /\ SessionIdle
    /\ DevIdle
    /\ KubectlIdle
    /\ KanikoIdle
    /\ HelmIdle

notKubectlVars == <<syncVars, session, dev, configutil, kaniko, helm>>

NotKubectlIdle ==
    /\ SyncIdle
    /\ SessionIdle
    /\ DevIdle
    /\ ConfigutilIdle
    /\ KanikoIdle
    /\ HelmIdle

notKanikoVars == <<syncVars, session, dev, configutil, kubectl, helm>>

NotKanikoIdle ==
    /\ SyncIdle
    /\ SessionIdle
    /\ DevIdle
    /\ ConfigutilIdle
    /\ KubectlIdle
    /\ HelmIdle

notHelmVars == <<syncVars, session, dev, configutil, kubectl, kaniko>>

NotHelmIdle ==
    /\ SyncIdle
    /\ SessionIdle
    /\ DevIdle
    /\ ConfigutilIdle
    /\ KubectlIdle
    /\ KanikoIdle

vars == <<syncVars, nonSyncVars>>

evalVars == <<fileMap, ignoreMatcher, uploadIgnoreMatcher, localFS,
              state, mutex, transfers, removeQueue, remoteFS, nonSyncVars>>

\* The *Sync argument of the decision functions.
Sync == [ignoreMatcher |-> ignoreMatcher,
         uploadIgnoreMatcher |-> uploadIgnoreMatcher,
         fileMap |-> fileMap]

\* os.Stat(absFilepath): follows symbolic links.
osStat(absFilepath) ==
    LET e == localFS[absFilepath] IN
    IF e \in {NotExist, StatFailure}
    THEN [stat |-> Nil, err |-> e.err]
    ELSE [stat |-> [ModTime |-> e.ModTime, Size |-> e.Size, Mode |-> e.Mode],
          err |-> "nil"]

\* os.Lstat as used by the local collector: nil when the path cannot be read.
osLstat(path) ==
    LET e == localFS[path] IN
    IF e \in {NotExist, StatFailure}
    THEN Nil
    ELSE [ModTime |-> e.ModTime, Size |-> e.Size,
          Mode |-> IF e.link THEN "symlink" ELSE e.Mode]

IsDir(stat) == stat.Mode = "dir"

(***************************************************************************)
(* shouldRemoveRemote                                                       *)
(***************************************************************************)
\* The remote deletion decided without the upload exclude list.
shouldRemoveRemoteNoUploadIgnore(relativePath, s) ==
    IF ~s.ignoreMatcher.isNil /\ MatchesPath(s.ignoreMatcher, relativePath)
    THEN FALSE
    ELSE IF s.fileMap[relativePath] = Nil
    THEN FALSE
    ELSE IF s.fileMap[relativePath].IsSymbolicLink
    THEN FALSE
    ELSE TRUE

shouldRemoveRemote(relativePath, s) ==
    IF ~s.ignoreMatcher.isNil /\ MatchesPath(s.ignoreMatcher, relativePath)
    THEN FALSE
    ELSE IF ~s.uploadIgnoreMatcher.isNil
            /\ MatchesPath(s.uploadIgnoreMatcher, relativePath)
    THEN FALSE
    ELSE IF s.fileMap[relativePath] = Nil
    THEN FALSE
    ELSE IF s.fileMap[relativePath].IsSymbolicLink
    THEN FALSE
    ELSE TRUE

(***************************************************************************)
(* shouldUpload                                                             *)
(***************************************************************************)
\* Initial pass: the file is not newer locally than the tracked record.
notNewerLocallyStrict(stat, tracked) == Unix(stat.ModTime) < tracked.Mtime

notNewerLocallySameSize(stat, tracked) ==
    /\ Unix(stat.ModTime) <= tracked.Mtime
    /\ stat.Size = tracked.Size

notNewerLocally(stat, tracked) == Unix(stat.ModTime) <= tracked.Mtime

\* The local mtime compared with its sub-second part.
unchangedLocallyExactTime(stat, tracked) ==
    /\ stat.ModTime = [sec |-> tracked.Mtime, frac |-> FALSE]
    /\ stat.Size = tracked.Size

\* After the initial pass: the file did not change, or was changed by
\* downstream.
unchangedLocally(stat, tracked) ==
    /\ Unix(stat.ModTime) = tracked.Mtime
    /\ stat.Size = tracked.Size

\* The upload decided without looking at the symbolic-link flag of the record.
shouldUploadTrackedSymlinks(relativePath, stat, s, isInitial) ==
    IF stat = Nil
    THEN FALSE
    ELSE IF ~s.ignoreMatcher.isNil /\ MatchesPath(s.ignoreMatcher, relativePath)
    THEN FALSE
    ELSE IF stat.Mode = "symlink"
    THEN FALSE
    ELSE IF s.fileMap[relativePath] # Nil
    THEN IF IsDir(stat)
         THEN FALSE
         ELSE IF isInitial
         THEN ~notNewerLocally(stat, s.fileMap[relativePath])
         ELSE ~unchangedLocally(stat, s.fileMap[relativePath])
    ELSE TRUE

\* The upload decided for a tracked directory as for a tracked file.
shouldUploadDirsAsFiles(relativePath, stat, s, isInitial) ==
    IF stat = Nil
    THEN FALSE
    ELSE IF ~s.ignoreMatcher.isNil /\ MatchesPath(s.ignoreMatcher, relativePath)
    THEN FALSE
    ELSE IF stat.Mode = "symlink"
    THEN FALSE
    ELSE IF s.fileMap[relativePath] # Nil
    THEN IF s.fileMap[relativePath].IsSymbolicLink
         THEN FALSE
         ELSE IF isInitial
         THEN ~notNewerLocally(stat, s.fileMap[relativePath])
         ELSE ~unchangedLocally(stat, s.fileMap[relativePath])
    ELSE TRUE

\* The upload decided with the upload exclude list applied.
shouldUploadWithUploadIgnore(relativePath, stat, s, isInitial) ==
    IF stat = Nil
    THEN FALSE
    ELSE IF ~s.ignoreMatcher.isNil /\ MatchesPath(s.ignoreMatcher, relativePath)
    THEN FALSE
    ELSE IF ~s.uploadIgnoreMatcher.isNil
            /\ MatchesPath(s.uploadIgnoreMatcher, relativePath)
    THEN FALSE
    ELSE IF stat.Mode = "symlink"
    THEN FALSE
    ELSE IF s.fileMap[relativePath] # Nil
    THEN IF IsDir(stat)
         THEN FALSE
         ELSE IF s.fileMap[relativePath].IsSymbolicLink
         THEN FALSE
         ELSE IF isInitial
         THEN ~notNewerLocally(stat, s.fileMap[relativePath])
         ELSE ~unchangedLocally(stat, s.fileMap[relativePath])
    ELSE TRUE

shouldUpload(relativePath, stat, s, isInitial) ==
    IF stat = Nil
    THEN FALSE
    ELSE IF ~s.ignoreMatcher.isNil /\ MatchesPath(s.ignoreMatcher, relativePath)
    THEN FALSE
    ELSE IF stat.Mode = "symlink"
    THEN FALSE
    ELSE IF s.fileMap[relativePath] # Nil
    THEN IF IsDir(stat)
         THEN FALSE
         ELSE IF s.fileMap[relativePath].IsSymbolicLink
         THEN FALSE
         ELSE IF isInitial
         THEN IF notNewerLocally(stat, s.fileMap[relativePath])
              THEN FALSE
              ELSE TRUE
         ELSE IF unchangedLocally(stat, s.fileMap[relativePath])
              THEN FALSE
              ELSE TRUE
    ELSE TRUE

(***************************************************************************)
(* shouldDownload                                                           *)
(***************************************************************************)
\* A download decided for every change that is not older than the record.
shouldDownloadNotOlder(change, s) ==
    IF s.fileMap[change.Path] # Nil
    THEN IF change.IsDir = FALSE
         THEN change.MtimeUnix >= s.fileMap[change.Path].Mtime
         ELSE FALSE
    ELSE TRUE

\* A directory decided like a file: a tracked directory is downloaded again
\* when the change is newer or has another size.
shouldDownloadDirsAsFiles(change, s) ==
    IF s.fileMap[change.Path] # Nil
    THEN \/ change.MtimeUnix > s.fileMap[change.Path].Mtime
         \/ /\ change.MtimeUnix = s.fileMap[change.Path].Mtime
            /\ change.Size # s.fileMap[change.Path].Size
    ELSE TRUE

\* A download decided on a changed size alone, whatever the mtime.
shouldDownloadSizeAnyMtime(change, s) ==
    IF s.fileMap[change.Path] # Nil
    THEN IF change.IsDir = FALSE
         THEN \/ change.MtimeUnix > s.fileMap[change.Path].Mtime
              \/ change.Size # s.fileMap[change.Path].Size
         ELSE FALSE
    ELSE TRUE

shouldDownload(change, s) ==
    IF s.fileMap[change.Path] # Nil
    THEN IF change.IsDir = FALSE
         THEN IF change.MtimeUnix > s.fileMap[change.Path].Mtime
              THEN TRUE
              ELSE IF change.MtimeUnix = s.fileMap[change.Path].Mtime
                      /\ change.Size # s.fileMap[change.Path].Size
              THEN TRUE
              ELSE FALSE
         ELSE FALSE
    ELSE TRUE

(***************************************************************************)
(* shouldRemoveLocal                                                        *)
(***************************************************************************)
\* The live entry's directory flag against the tracked record's and the
\* snapshot's.
isDirUnequalMapOnly(stat, tracked, fileInformation) ==
    IsDir(stat) # tracked.IsDirectory

isDirUnequal(stat, tracked, fileInformation) ==
    \/ IsDir(stat) # tracked.IsDirectory
    \/ IsDir(stat) # fileInformation.IsDirectory

\* The snapshot against the tracked record: did the record change in the map
\* since the changes were collected?
unchangedInMapMtimeOnly(fileInformation, tracked) ==
    fileInformation.Mtime = tracked.Mtime

unchangedInMap(fileInformation, tracked) ==
    /\ fileInformation.Mtime = tracked.Mtime
    /\ fileInformation.Size = tracked.Size

\* The live file against the snapshot: did the file change on the file
\* system meanwhile?
unchangedOnFilesystemFlipped(stat, fileInformation) ==
    Unix(stat.ModTime) >= fileInformation.Mtime

unchangedOnFilesystem(stat, fileInformation) ==
    Unix(stat.ModTime) <= fileInformation.Mtime

\* The local deletion decided for a directory as for a file: only when the
\* snapshot equals the record and the live mtime is not after it.
shouldRemoveLocalDirsAsFiles(absFilepath, fileInformation, s) ==
    IF fileInformation = Nil
    THEN FALSE
    ELSE LET res == osStat(absFilepath)
             stat == res.stat
             tracked == s.fileMap[fileInformation.Name]
         IN
         IF res.err # "nil"
         THEN FALSE
         ELSE IF stat # Nil /\ tracked # Nil
         THEN IF isDirUnequal(stat, tracked, fileInformation)
              THEN FALSE
              ELSE /\ unchangedInMap(fileInformation, tracked)
                   /\ unchangedOnFilesystem(stat, fileInformation)
         ELSE FALSE

shouldRemoveLocal(absFilepath, fileInformation, s) ==
    IF fileInformation = Nil
    THEN FALSE
    ELSE LET res == osStat(absFilepath)
             stat == res.stat
             tracked == s.fileMap[fileInformation.Name]
         IN
         IF res.err # "nil"
         THEN FALSE
         ELSE IF stat # Nil /\ tracked # Nil
         THEN IF isDirUnequal(stat, tracked, fileInformation)
              THEN FALSE
              ELSE IF fileInformation.IsDirectory = FALSE
              THEN IF unchangedInMap(fileInformation, tracked)
                   THEN IF unchangedOnFilesystem(stat, fileInformation)
                        THEN TRUE
                        ELSE FALSE
                   ELSE FALSE
              ELSE TRUE
         ELSE FALSE

(***************************************************************************)
(* The evaluation specification: the index, the matchers and the local     *)
(* file system are drawn from the bounded sets, and each action evaluates  *)
(* one decision function on them and records the call.                     *)
(***************************************************************************)
\* The matchers of the evaluation: none configured, or patterns matching "a".
EvalMatchers == {NilMatcher, Matcher({"a"})}

InitEval ==
    /\ ignoreMatcher \in EvalMatchers
    /\ uploadIgnoreMatcher \in EvalMatchers
    /\ \E p \in Paths :
          /\ \E r \in FileInformationOf(p) \cup {Nil} :
                fileMap = [q \in Paths |-> IF q = p THEN r ELSE Nil]
          /\ \E e \in LocalState :
                localFS = [q \in Paths |-> IF q = p THEN e ELSE NotExist]
    /\ call = NoCall
    /\ state = "Initializing"
    /\ mutex = "none"
    /\ transfers = {}
    /\ removeQueue = {}
    /\ remoteFS = [p \in Paths |-> NotExist]
    /\ NonSyncIdle

\* One evaluation per behaviour: the inputs are drawn, one function is applied
\* to the path the inputs are about (any path when the index and the file
\* system are empty).  The snapshot of a deletion carries the name its
\* absFilepath was built from.
EvalPath(p) ==
    \A q \in Paths \ {p} : fileMap[q] = Nil /\ localFS[q] = NotExist

EvalShouldRemoveRemote ==
    \E p \in Paths :
       /\ EvalPath(p)
       /\ call = NoCall
       /\ call' = [fn |-> "shouldRemoveRemote", path |-> p,
                   result |-> shouldRemoveRemote(p, Sync)]
       /\ UNCHANGED evalVars

EvalShouldUpload ==
    \E p \in Paths, isInitial \in BOOLEAN :
       /\ EvalPath(p)
       /\ call = NoCall
       /\ call' = [fn |-> "shouldUpload", path |-> p, stat |-> osLstat(p),
                   isInitial |-> isInitial,
                   result |-> shouldUpload(p, osLstat(p), Sync, isInitial)]
       /\ UNCHANGED evalVars

EvalShouldDownload ==
    \E change \in Change :
       /\ EvalPath(change.Path)
       /\ call = NoCall
       /\ call' = [fn |-> "shouldDownload", path |-> change.Path,
                   change |-> change,
                   result |-> shouldDownload(change, Sync)]
       /\ UNCHANGED evalVars

EvalShouldRemoveLocal ==
    \E p \in Paths : \E fileInformation \in FileInformationOf(p) \cup {Nil} :
       /\ EvalPath(p)
       /\ call = NoCall
       /\ call' = [fn |-> "shouldRemoveLocal", path |-> p,
                   fileInformation |-> fileInformation,
                   result |-> shouldRemoveLocal(p, fileInformation, Sync)]
       /\ UNCHANGED evalVars

NextEval ==
    \/ EvalShouldRemoveRemote
    \/ EvalShouldUpload
    \/ EvalShouldDownload
    \/ EvalShouldRemoveLocal

SpecEval == InitEval /\ [][NextEval]_vars

(***************************************************************************)
(* The sync session: the local collector and the upload pipeline run in    *)
(* the upstream worker, the remote collector, the download pipeline and    *)
(* the execution of local deletions in the downstream worker.  Both take   *)
(* the fileIndex lock around every evaluation of a decision function and   *)
(* every change of the fileMap.                                            *)
(*                                                                         *)
(* The decisions and the pipelines treat every path on its own, so a       *)
(* behaviour follows one path: a path is only touched while every other    *)
(* path is untouched.                                                      *)
(***************************************************************************)
Workers == {"upstream", "downstream"}

Running == {"InitialReconciling", "Watching"}

TransfersOf(p) == {t \in transfers : t.path = p}

InFlight(p) == TransfersOf(p) # {}

Queued(p) == \E f \in removeQueue : f.Name = p

Untouched(q) ==
    /\ fileMap[q] = Nil
    /\ localFS[q] = NotExist
    /\ ~InFlight(q)
    /\ ~Queued(q)

OnlyPath(p) == \A q \in Paths \ {p} : Untouched(q)

\* A directory as the pipelines see it: its mtime and size are never read.
DirEntry == [ModTime |-> [sec |-> 0, frac |-> FALSE], Size |-> 0,
             Mode |-> "dir", link |-> FALSE]

FileEntry(t, sz) == [ModTime |-> t, Size |-> sz, Mode |-> "file", link |-> FALSE]

\* The record an upload commits: the mtime (whole seconds) and size of the
\* local file as the collector saw it.
RecordOfStat(p, stat) ==
    [Name |-> p, Mtime |-> Unix(stat.ModTime), Size |-> stat.Size,
     IsDirectory |-> IsDir(stat), IsSymbolicLink |-> FALSE]

\* The record a download commits: the mtime and size of the remote change.
RecordOfChange(change) ==
    [Name |-> change.Path, Mtime |-> change.MtimeUnix, Size |-> change.Size,
     IsDirectory |-> change.IsDir, IsSymbolicLink |-> FALSE]

\* The local file a download writes: the remote mtime is set on it.
EntryOfRecord(f) ==
    IF f.IsDirectory THEN DirEntry
    ELSE FileEntry([sec |-> f.Mtime, frac |-> FALSE], f.Size)

\* The remote changes the collector reports; a directory carries no mtime or
\* size of interest.
RemoteChanges == {c \in Change : c.IsDir => (c.MtimeUnix = 0 /\ c.Size = 0)}

\* The session's general ignore patterns match "a" and not "b".
IgnoredPaths == {"a"}

Init ==
    /\ fileMap = [p \in Paths |-> Nil]
    /\ ignoreMatcher = Matcher(IgnoredPaths)
    /\ uploadIgnoreMatcher = NilMatcher
    /\ localFS = [p \in Paths |-> NotExist]
    /\ call = NoCall
    /\ state = "Initializing"
    /\ mutex = "none"
    /\ transfers = {}
    /\ removeQueue = {}
    /\ remoteFS = [p \in Paths |-> NotExist]
    /\ NonSyncIdle

(***************************************************************************)
(* The user's edits of the local tree.                                     *)
(***************************************************************************)
LocalWrite(p) ==
    /\ state \in {"Initializing"} \cup Running
    /\ OnlyPath(p)
    /\ IF localFS[p] = NotExist THEN TRUE ELSE localFS[p].Mode = "file"
    /\ \E t \in ModTimes, sz \in Sizes :
          localFS' = [localFS EXCEPT ![p] = FileEntry(t, sz)]
    /\ UNCHANGED <<fileMap, ignoreMatcher, uploadIgnoreMatcher, call,
                   state, mutex, transfers, removeQueue, remoteFS,
                   nonSyncVars>>

LocalMkdir(p) ==
    /\ state \in {"Initializing"} \cup Running
    /\ OnlyPath(p)
    /\ localFS[p] = NotExist
    /\ localFS' = [localFS EXCEPT ![p] = DirEntry]
    /\ UNCHANGED <<fileMap, ignoreMatcher, uploadIgnoreMatcher, call,
                   state, mutex, transfers, removeQueue, remoteFS,
                   nonSyncVars>>

LocalRemove(p) ==
    /\ state \in {"Initializing"} \cup Running
    /\ localFS[p] # NotExist
    /\ localFS' = [localFS EXCEPT ![p] = NotExist]
    /\ UNCHANGED <<fileMap, ignoreMatcher, uploadIgnoreMatcher, call,
                   state, mutex, transfers, removeQueue, remoteFS,
                   nonSyncVars>>

(***************************************************************************)
(* The session's life cycle.                                               *)
(***************************************************************************)
Start ==
    /\ state = "Initializing"
    /\ state' = "InitialReconciling"
    /\ UNCHANGED <<fileMap, ignoreMatcher, uploadIgnoreMatcher, localFS, call,
                   mutex, transfers, removeQueue, remoteFS,
                   nonSyncVars>>

InitialDone ==
    /\ state = "InitialReconciling"
    /\ transfers = {}
    /\ state' = "Watching"
    /\ UNCHANGED <<fileMap, ignoreMatcher, uploadIgnoreMatcher, localFS, call,
                   mutex, transfers, removeQueue, remoteFS,
                   nonSyncVars>>

\* Stop: the collectors exit, the queued deletions are dropped, the transfers
\* in flight finish or abort.
Stop ==
    /\ state \in Running
    /\ state' = "Stopping"
    /\ removeQueue' = {}
    /\ UNCHANGED <<fileMap, ignoreMatcher, uploadIgnoreMatcher, localFS, call,
                   mutex, transfers, remoteFS, nonSyncVars>>

Stopped ==
    /\ state = "Stopping"
    /\ transfers = {}
    /\ mutex = "none"
    /\ state' = "Stopped"
    /\ UNCHANGED <<fileMap, ignoreMatcher, uploadIgnoreMatcher, localFS, call,
                   mutex, transfers, removeQueue, remoteFS,
                   nonSyncVars>>

(***************************************************************************)
(* The fileIndex lock.  call records what the holder of the lock evaluated *)
(* or committed last in its critical section (or the last abort of a       *)
(* transfer outside one); taking and releasing the lock clear it.          *)
(***************************************************************************)
Lock(w) ==
    /\ state \in Running \cup {"Stopping"}
    /\ mutex = "none"
    /\ mutex' = w
    /\ call' = NoCall
    /\ UNCHANGED <<fileMap, ignoreMatcher, uploadIgnoreMatcher, localFS,
                   state, transfers, removeQueue, remoteFS,
                   nonSyncVars>>

Unlock(w) ==
    /\ mutex = w
    /\ mutex' = "none"
    /\ call' = NoCall
    /\ UNCHANGED <<fileMap, ignoreMatcher, uploadIgnoreMatcher, localFS,
                   state, transfers, removeQueue, remoteFS,
                   nonSyncVars>>

HoldsAlways(w) == TRUE

Holds(w) == mutex = w

\* A path is dispatched only when no transfer for it is in flight: a change
\* to a path in mid-transfer waits and is evaluated after it.
FreeAlways(p) == TRUE

Free(p) == ~InFlight(p)

(***************************************************************************)
(* Upstream: the local collector and the upload pipeline.                  *)
(***************************************************************************)
\* The collector sees a local path that exists: shouldUpload decides, and an
\* upload is dispatched.
CollectLocalChange(p) ==
    LET stat == osLstat(p)
        isInitial == state = "InitialReconciling"
        decision == shouldUpload(p, stat, Sync, isInitial)
    IN
    /\ state \in Running
    /\ Holds("upstream")
    /\ Free(p)
    /\ stat # Nil
    /\ call' = [fn |-> "shouldUpload", path |-> p, isDir |-> IsDir(stat),
                isInitial |-> isInitial, result |-> decision,
                worker |-> "upstream", holder |-> mutex]
    /\ transfers' = IF decision
                    THEN transfers \cup {[path |-> p, dir |-> "up",
                                          info |-> RecordOfStat(p, stat)]}
                    ELSE transfers
    /\ UNCHANGED <<fileMap, ignoreMatcher, uploadIgnoreMatcher, localFS,
                   state, mutex, removeQueue, remoteFS,
                   nonSyncVars>>

\* A record leaves the index when its deletion was decided and executed
\* successfully.
RecordRemovedOnDecision(decision, removeOk) == decision

RecordRemoved(decision, removeOk) == decision /\ removeOk

\* The collector sees that a local path is gone: shouldRemoveRemote decides,
\* the remote path is deleted and, when that succeeded, the record leaves the
\* index.
CollectLocalRemoval(p) ==
    LET decision == shouldRemoveRemote(p, Sync) IN
    /\ state = "Watching"
    /\ Holds("upstream")
    /\ Free(p)
    /\ osLstat(p) = Nil
    /\ \E removeOk \in (IF decision THEN BOOLEAN ELSE {FALSE}) :
          /\ remoteFS' = IF decision /\ removeOk
                         THEN [remoteFS EXCEPT ![p] = NotExist] ELSE remoteFS
          /\ fileMap' = IF RecordRemoved(decision, removeOk)
                        THEN [fileMap EXCEPT ![p] = Nil] ELSE fileMap
          /\ call' = [fn |-> "shouldRemoveRemote", path |-> p,
                      result |-> decision, removed |-> decision /\ removeOk,
                      worker |-> "upstream", holder |-> mutex]
    /\ UNCHANGED <<ignoreMatcher, uploadIgnoreMatcher, localFS,
                   state, mutex, transfers, removeQueue, nonSyncVars>>

\* An upload completes: its record is committed with the completion.
CompleteUpload(t) ==
    /\ t \in transfers
    /\ t.dir = "up"
    /\ Holds("upstream")
    /\ fileMap' = [fileMap EXCEPT ![t.path] = t.info]
    /\ transfers' = transfers \ {t}
    /\ call' = [fn |-> "commitUpload", path |-> t.path,
                worker |-> "upstream", holder |-> mutex]
    /\ UNCHANGED <<ignoreMatcher, uploadIgnoreMatcher, localFS,
                   state, mutex, removeQueue, remoteFS,
                   nonSyncVars>>

\* A transfer fails or is cancelled by Stop: it is discarded.
AbortTransferCommitting(t) ==
    /\ t \in transfers
    /\ fileMap' = [fileMap EXCEPT ![t.path] = t.info]
    /\ transfers' = transfers \ {t}
    /\ call' = [fn |-> "abort", path |-> t.path]
    /\ UNCHANGED <<ignoreMatcher, uploadIgnoreMatcher, localFS,
                   state, mutex, removeQueue, remoteFS,
                   nonSyncVars>>

AbortTransfer(t) ==
    /\ t \in transfers
    /\ transfers' = transfers \ {t}
    /\ call' = [fn |-> "abort", path |-> t.path]
    /\ UNCHANGED <<fileMap, ignoreMatcher, uploadIgnoreMatcher, localFS,
                   state, mutex, removeQueue, remoteFS,
                   nonSyncVars>>

(***************************************************************************)
(* Downstream: the remote collector, the download pipeline and the         *)
(* execution of the remote-driven local deletions.                         *)
(***************************************************************************)
\* The remote side reports a changed path: shouldDownload decides, and a
\* download is dispatched.
CollectRemoteChange(change) ==
    LET decision == shouldDownload(change, Sync) IN
    /\ state \in Running
    /\ Holds("downstream")
    /\ Free(change.Path)
    /\ OnlyPath(change.Path)
    /\ call' = [fn |-> "shouldDownload", path |-> change.Path,
                change |-> change, tracked |-> fileMap[change.Path],
                result |-> decision,
                worker |-> "downstream", holder |-> mutex]
    /\ transfers' = IF decision
                    THEN transfers \cup {[path |-> change.Path, dir |-> "down",
                                          info |-> RecordOfChange(change)]}
                    ELSE transfers
    /\ UNCHANGED <<fileMap, ignoreMatcher, uploadIgnoreMatcher, localFS,
                   state, mutex, removeQueue, remoteFS,
                   nonSyncVars>>

\* The remote side no longer has a tracked path: its local deletion is queued
\* with a copy of the tracked record, the pending snapshot.
CollectRemoteDeletion(p) ==
    /\ state = "Watching"
    /\ Holds("downstream")
    /\ fileMap[p] # Nil
    /\ ~Queued(p)
    /\ removeQueue' = removeQueue \cup {fileMap[p]}
    /\ UNCHANGED <<fileMap, ignoreMatcher, uploadIgnoreMatcher, localFS, call,
                   state, mutex, transfers, remoteFS,
                   nonSyncVars>>

\* A download completes: the local file is written with the remote mtime and
\* the record is committed with the completion.
CompleteDownload(t) ==
    /\ t \in transfers
    /\ t.dir = "down"
    /\ Holds("downstream")
    /\ localFS' = [localFS EXCEPT ![t.path] = EntryOfRecord(t.info)]
    /\ fileMap' = [fileMap EXCEPT ![t.path] = t.info]
    /\ transfers' = transfers \ {t}
    /\ call' = [fn |-> "commitDownload", path |-> t.path,
                worker |-> "downstream", holder |-> mutex]
    /\ UNCHANGED <<ignoreMatcher, uploadIgnoreMatcher,
                   state, mutex, removeQueue, remoteFS,
                   nonSyncVars>>

\* A queued local deletion is executed: shouldRemoveLocal decides on the
\* snapshot, the record and the live file; the file is removed and, when that
\* succeeded, the record leaves the index.
ExecuteRemoveLocal(snapshot) ==
    LET p == snapshot.Name
        decision == shouldRemoveLocal(p, snapshot, Sync)
    IN
    /\ snapshot \in removeQueue
    /\ state = "Watching"
    /\ Holds("downstream")
    /\ Free(p)
    /\ \E removeOk \in (IF decision THEN BOOLEAN ELSE {FALSE}) :
          /\ localFS' = IF decision /\ removeOk
                        THEN [localFS EXCEPT ![p] = NotExist] ELSE localFS
          /\ fileMap' = IF RecordRemoved(decision, removeOk)
                        THEN [fileMap EXCEPT ![p] = Nil] ELSE fileMap
          /\ call' = [fn |-> "shouldRemoveLocal", path |-> p,
                      fileInformation |-> snapshot, tracked |-> fileMap[p],
                      live |-> localFS[p], result |-> decision,
                      removed |-> decision /\ removeOk,
                      worker |-> "downstream", holder |-> mutex]
    /\ removeQueue' = removeQueue \ {snapshot}
    /\ UNCHANGED <<ignoreMatcher, uploadIgnoreMatcher, state, mutex, transfers,
                   remoteFS, nonSyncVars>>

Next ==
    \/ \E p \in Paths : LocalWrite(p)
    \/ \E p \in Paths : LocalMkdir(p)
    \/ \E p \in Paths : LocalRemove(p)
    \/ Start
    \/ InitialDone
    \/ Stop
    \/ Stopped
    \/ \E w \in Workers : Lock(w)
    \/ \E w \in Workers : Unlock(w)
    \/ \E p \in Paths : CollectLocalChange(p)
    \/ \E p \in Paths : CollectLocalRemoval(p)
    \/ \E t \in transfers : CompleteUpload(t)
    \/ \E t \in transfers : AbortTransfer(t)
    \/ \E change \in RemoteChanges : CollectRemoteChange(change)
    \/ \E p \in Paths : CollectRemoteDeletion(p)
    \/ \E t \in transfers : CompleteDownload(t)
    \/ \E snapshot \in removeQueue : ExecuteRemoveLocal(snapshot)

Spec == Init /\ [][Next]_vars

(***************************************************************************)
(* The loop once the external edits have stopped: the session is watching, *)
(* the local tree, the remote tree and the index of one path are in any    *)
(* state the edits may have left them in, and from then on only the        *)
(* collectors, the decisions, the transfers and the index act.  The remote *)
(* collector reports the remote tree as it is; an upload writes the remote *)
(* file with the committed mtime and size.                                 *)
(***************************************************************************)
\* A remote path: absent, or a file or directory with its mtime and size.
RemoteState ==
    {NotExist} \cup {c \in [MtimeUnix : Times, Size : Sizes, IsDir : BOOLEAN] :
                        c.IsDir => (c.MtimeUnix = 0 /\ c.Size = 0)}

\* The remote change the collector reports for a path that exists remotely.
ChangeOf(p) ==
    [Path |-> p, MtimeUnix |-> remoteFS[p].MtimeUnix,
     Size |-> remoteFS[p].Size, IsDir |-> remoteFS[p].IsDir]

\* The remote file an upload writes: the mtime and size of the record.
RemoteOfRecord(f) ==
    [MtimeUnix |-> f.Mtime, Size |-> f.Size, IsDir |-> f.IsDirectory]

\* The records the session commits: of files, and of directories.
LoopRecords(p) ==
    {f \in FileInformationOf(p) :
        /\ f.IsSymbolicLink = FALSE
        /\ f.IsDirectory => (f.Mtime = 0 /\ f.Size = 0)}

\* The local entries the edits leave: nothing, a file, a directory.
LoopLocal ==
    {NotExist, DirEntry} \cup {FileEntry(t, sz) : t \in ModTimes, sz \in Sizes}

InitLoop ==
    /\ ignoreMatcher = Matcher(IgnoredPaths)
    /\ uploadIgnoreMatcher = NilMatcher
    /\ \E p \in Paths :
          /\ \E r \in LoopRecords(p) \cup {Nil} :
                fileMap = [q \in Paths |-> IF q = p THEN r ELSE Nil]
          /\ \E e \in LoopLocal :
                localFS = [q \in Paths |-> IF q = p THEN e ELSE NotExist]
          /\ \E c \in RemoteState :
                remoteFS = [q \in Paths |-> IF q = p THEN c ELSE NotExist]
    /\ call = NoCall
    /\ state = "Watching"
    /\ mutex = "none"
    /\ transfers = {}
    /\ removeQueue = {}
    /\ NonSyncIdle

\* The remote collector reports a path that exists remotely.
LoopCollectRemoteChange(p) ==
    /\ remoteFS[p] # NotExist
    /\ CollectRemoteChange(ChangeOf(p))

\* The remote collector finds a tracked path gone remotely.
LoopCollectRemoteDeletion(p) ==
    /\ remoteFS[p] = NotExist
    /\ CollectRemoteDeletion(p)

\* CompleteUpload, with the remote file written.
LoopCompleteUpload(t) ==
    /\ t \in transfers
    /\ t.dir = "up"
    /\ Holds("upstream")
    /\ fileMap' = [fileMap EXCEPT ![t.path] = t.info]
    /\ remoteFS' = [remoteFS EXCEPT ![t.path] = RemoteOfRecord(t.info)]
    /\ transfers' = transfers \ {t}
    /\ call' = [fn |-> "commitUpload", path |-> t.path,
                worker |-> "upstream", holder |-> mutex]
    /\ UNCHANGED <<ignoreMatcher, uploadIgnoreMatcher, localFS,
                   state, mutex, removeQueue, nonSyncVars>>

\* CollectLocalRemoval, with the remote path deleted.
LoopCollectLocalRemoval(p) ==
    LET decision == shouldRemoveRemote(p, Sync) IN
    /\ state = "Watching"
    /\ Holds("upstream")
    /\ Free(p)
    /\ osLstat(p) = Nil
    /\ call' = [fn |-> "shouldRemoveRemote", path |-> p, result |-> decision,
                worker |-> "upstream", holder |-> mutex]
    /\ fileMap' = IF decision THEN [fileMap EXCEPT ![p] = Nil] ELSE fileMap
    /\ remoteFS' = IF decision THEN [remoteFS EXCEPT ![p] = NotExist]
                   ELSE remoteFS
    /\ UNCHANGED <<ignoreMatcher, uploadIgnoreMatcher, localFS,
                   state, mutex, transfers, removeQueue,
                   nonSyncVars>>

NextLoop ==
    \/ \E w \in Workers : Lock(w)
    \/ \E w \in Workers : Unlock(w)
    \/ \E p \in Paths : CollectLocalChange(p)
    \/ \E p \in Paths : LoopCollectLocalRemoval(p)
    \/ \E t \in transfers : LoopCompleteUpload(t)
    \/ \E p \in Paths : LoopCollectRemoteChange(p)
    \/ \E p \in Paths : LoopCollectRemoteDeletion(p)
    \/ \E t \in transfers : CompleteDownload(t)
    \/ \E snapshot \in removeQueue : ExecuteRemoveLocal(snapshot)

\* Scheduling: a worker waiting for the fileIndex lock gets it and releases
\* it, each collector runs its cycle again and again, and a transfer in
\* flight completes.
FairLoop ==
    /\ \A w \in Workers : SF_vars(Lock(w)) /\ WF_vars(Unlock(w))
    /\ SF_vars(\E p \in Paths : CollectLocalChange(p))
    /\ SF_vars(\E p \in Paths : LoopCollectRemoteChange(p))
    /\ SF_vars(\E t \in transfers : LoopCompleteUpload(t))
    /\ SF_vars(\E t \in transfers : CompleteDownload(t))

SpecLoop == InitLoop /\ [][NextLoop]_vars /\ FairLoop

(***************************************************************************)
(* The session as its caller sees it: the start call, the transport        *)
(* channel with its failures, the status channel, and the per-file local   *)
(* I/O errors.  The life cycle, the lock and the upload pipeline are those *)
(* of the sync session above; the local tree holds at most one entry.      *)
(***************************************************************************)
TransportFailures == {"failed", "timeout"}

\* session.waitInitialSync: the "wait for initial sync" flag of the
\* configuration; startCall: "running" or "returned"; transport: "up" or a
\* failure; statusChannel: the errors delivered on the status channel;
\* diagnostics: the paths skipped with a diagnostic.
InitSession ==
    /\ fileMap = [p \in Paths |-> Nil]
    /\ ignoreMatcher = Matcher(IgnoredPaths)
    /\ uploadIgnoreMatcher = NilMatcher
    /\ \E p \in Paths : \E e \in LoopLocal :
          localFS = [q \in Paths |-> IF q = p THEN e ELSE NotExist]
    /\ call = NoCall
    /\ state = "Initializing"
    /\ mutex = "none"
    /\ transfers = {}
    /\ removeQueue = {}
    /\ remoteFS = [p \in Paths |-> NotExist]
    /\ session \in [waitInitialSync : BOOLEAN, startCall : {"running"},
                    transport : {"up"}, statusChannel : {{}},
                    diagnostics : {{}}]
    /\ NotSessionIdle

\* The start call returns the handle once the session is set up, and with
\* the "wait for initial sync" flag only once the initial reconciliation is
\* over.
StartMayReturnEarly == state # "Initializing"

StartMayReturn ==
    IF session.waitInitialSync
    THEN state \notin {"Initializing", "InitialReconciling"}
    ELSE state # "Initializing"

StartReturns ==
    /\ session.startCall = "running"
    /\ StartMayReturn
    /\ session' = [session EXCEPT !.startCall = "returned"]
    /\ UNCHANGED <<syncVars, notSessionVars>>

\* A transport operation (connection establishment, a change-list request, a
\* transfer) fails or times out.
TransportFails(kind) ==
    /\ session.transport = "up"
    /\ state \in {"Initializing"} \cup Running
    /\ session' = [session EXCEPT !.transport = kind]
    /\ UNCHANGED <<syncVars, notSessionVars>>

\* The session's answer to a transport failure: the error goes to the status
\* channel and the session stops.
StateAfterTransportErrorSilent == state

StateAfterTransportError ==
    IF state \in {"Stopping", "Stopped"} THEN state ELSE "Stopping"

HandleTransportError ==
    /\ session.transport \in TransportFailures
    /\ session.transport \notin session.statusChannel
    /\ session' = [session EXCEPT !.statusChannel = @ \cup {session.transport}]
    /\ state' = StateAfterTransportError
    /\ removeQueue' = {}
    /\ UNCHANGED <<fileMap, ignoreMatcher, uploadIgnoreMatcher, localFS, call,
                   mutex, transfers, remoteFS, notSessionVars>>

\* A collector or a transfer hits a local I/O error on one path: the path is
\* skipped for the cycle with a diagnostic.
LocalIOError(p) ==
    /\ state \in Running
    /\ p \notin session.diagnostics
    /\ session' = [session EXCEPT !.diagnostics = @ \cup {p}]
    /\ UNCHANGED <<syncVars, notSessionVars>>

NextSession ==
    \/ Start
    \/ InitialDone
    \/ Stop
    \/ Stopped
    \/ \E w \in Workers : Lock(w)
    \/ \E w \in Workers : Unlock(w)
    \/ \E p \in Paths : CollectLocalChange(p)
    \/ \E t \in transfers : CompleteUpload(t)
    \/ \E t \in transfers : AbortTransfer(t)
    \/ StartReturns
    \/ \E kind \in TransportFailures : TransportFails(kind)
    \/ HandleTransportError
    \/ \E p \in Paths : LocalIOError(p)

\* The session owner handles a transport error it was handed.
SpecSession ==
    InitSession /\ [][NextSession]_vars /\ WF_vars(HandleTransportError)

(***************************************************************************)
(* devspace dev (cmd/dev.go): buildAndDeploy and startServices as the      *)
(* steps of one sequential program, and the callbacks of the file watcher  *)
(* as goroutines beside it.  The calls into other packages (dependency,    *)
(* build, deploy, generated, services, watch) succeed or fail.             *)
(*                                                                         *)
(* dev.cmd holds the flags and dev.config what the program reads of the    *)
(* config; dev.pc is the position of the program, dev.steps the steps run  *)
(* since the config was (re)loaded, dev.result what buildAndDeploy         *)
(* returned and dev.servicesErr what startServices returned;               *)
(* dev.portForwarder, dev.syncClient, dev.watcher, dev.once, dev.callbacks *)
(* and dev.reloadSends belong to the current startServices invocation;     *)
(* dev.reloads counts the reloads of the run, of which the model follows   *)
(* MaxReloads.                                                             *)
(***************************************************************************)
Flags == [SkipPipeline : BOOLEAN, ExitAfterDeploy : BOOLEAN,
          Portforwarding : BOOLEAN, Sync : BOOLEAN, Terminal : BOOLEAN]

\* What the program reads of the config: config.Deployments != nil,
\* len(GetPaths(config)) > 0, and config.Dev.Terminal.Disabled set and true.
Configs == [Deployments : BOOLEAN, AutoReload : BOOLEAN,
            TerminalDisabled : BOOLEAN]

Callbacks == 1..MaxCallbacks

\* Run has loaded the config and calls buildAndDeploy.
InitDev ==
    /\ dev \in [cmd : Flags, config : Configs, pc : {"buildAndDeploy"},
                steps : {<<>>}, result : {"none"}, servicesErr : {"none"},
                portForwarder : {"none"}, syncClient : {"none"},
                watcher : {"none"}, once : {"new"},
                callbacks : {[c \in Callbacks |-> "none"]},
                reloadSends : {0}, reloads : {0}]
    /\ NotDevIdle

\* if cmd.SkipPipeline == false
RunsPipelineAlways == TRUE

RunsPipeline == dev.cmd.SkipPipeline = FALSE

\* if cmd.ExitAfterDeploy == false
StartsServices == dev.cmd.ExitAfterDeploy = FALSE

\* cmd.Terminal && (config.Dev == nil || ... || *Disabled == false)
UsesTerminal == dev.cmd.Terminal /\ ~dev.config.TerminalDisabled

\* dependency.DeployAll; log.Fatalf on error.
DeployDependencies ==
    /\ dev.pc = "buildAndDeploy"
    /\ RunsPipeline
    /\ \E ok \in BOOLEAN :
          dev' = [dev EXCEPT !.steps = Append(@, "dependencies"),
                             !.pc = IF ok THEN "build" ELSE "fatal"]
    /\ UNCHANGED notDevVars

SkipPipeline ==
    /\ dev.pc = "buildAndDeploy"
    /\ ~RunsPipeline
    /\ dev' = [dev EXCEPT !.pc = "afterPipeline"]
    /\ UNCHANGED notDevVars

\* build.All: no image built, images built, or an error that is returned.
BuildAll ==
    /\ dev.pc = "build"
    /\ \E out \in {"nothing", "built", "error"} :
          dev' = [dev EXCEPT
                     !.steps = Append(@, "build"),
                     !.pc = CASE out = "nothing" -> "deploy"
                              [] out = "built" -> "saveBuilt"
                              [] out = "error" -> "returned",
                     !.result = IF out = "error" THEN "buildError" ELSE @]
    /\ UNCHANGED notDevVars

\* generated.SaveConfig after an image was built.
SaveBuiltConfig ==
    /\ dev.pc = "saveBuilt"
    /\ \E ok \in BOOLEAN :
          dev' = [dev EXCEPT
                     !.steps = Append(@, "saveConfig"),
                     !.pc = IF ok THEN "deploy" ELSE "returned",
                     !.result = IF ok THEN @ ELSE "saveError"]
    /\ UNCHANGED notDevVars

\* deploy.All when the config has deployments.
DeployAll ==
    /\ dev.pc = "deploy"
    /\ IF dev.config.Deployments
       THEN \E ok \in BOOLEAN :
               dev' = [dev EXCEPT
                          !.steps = Append(@, "deploy"),
                          !.pc = IF ok THEN "saveDeployed" ELSE "returned",
                          !.result = IF ok THEN @ ELSE "deployError"]
       ELSE dev' = [dev EXCEPT !.pc = "afterPipeline"]
    /\ UNCHANGED notDevVars

\* generated.SaveConfig after the deployments.
SaveDeployedConfig ==
    /\ dev.pc = "saveDeployed"
    /\ \E ok \in BOOLEAN :
          dev' = [dev EXCEPT
                     !.steps = Append(@, "saveConfig"),
                     !.pc = IF ok THEN "afterPipeline" ELSE "returned",
                     !.result = IF ok THEN @ ELSE "saveError"]
    /\ UNCHANGED notDevVars

\* --exit-after-deploy: buildAndDeploy returns nil.
ExitAfterDeploy ==
    /\ dev.pc = "afterPipeline"
    /\ ~StartsServices
    /\ dev' = [dev EXCEPT !.pc = "returned", !.result = "nil"]
    /\ UNCHANGED notDevVars

\* startServices reaches a return statement with err: its deferred
\* functions are still to run.
Returning(d, err) == [d EXCEPT !.servicesErr = err, !.pc = "deferred"]

\* The deferred functions of startServices, last registered first, one a
\* step: watcher.Stop(), the Stop of the sync clients, the Close of the port
\* forwarders; then startServices has returned.
Deferred ==
    /\ dev.pc = "deferred"
    /\ dev' = IF dev.watcher = "started"
              THEN [dev EXCEPT !.watcher = "stopped"]
              ELSE IF dev.syncClient = "running"
              THEN [dev EXCEPT !.syncClient = "stopped"]
              ELSE IF dev.portForwarder = "open"
              THEN [dev EXCEPT !.portForwarder = "closed"]
              ELSE [dev EXCEPT !.pc = "servicesReturned"]
    /\ UNCHANGED notDevVars

\* startServices is called, with a fresh exit channel and sync.Once, and
\* starts port forwarding.  Callbacks of an earlier invocation still running
\* hold the earlier channel and leave the model here.
StartPortForwarding ==
    /\ dev.pc = "afterPipeline"
    /\ StartsServices
    /\ LET called == [dev EXCEPT !.pc = "sync",
                                 !.servicesErr = "none",
                                 !.portForwarder = "none",
                                 !.syncClient = "none",
                                 !.watcher = "none",
                                 !.once = "new",
                                 !.callbacks = [c \in Callbacks |-> "none"],
                                 !.reloadSends = 0]
       IN  IF dev.cmd.Portforwarding
           THEN \E ok \in BOOLEAN :
                   dev' = IF ok
                          THEN [called EXCEPT
                                   !.steps = Append(@, "portforwarding"),
                                   !.portForwarder = "open"]
                          ELSE Returning(
                                   [called EXCEPT
                                       !.steps = Append(@, "portforwarding")],
                                   "portforwardingError")
           ELSE dev' = called
    /\ UNCHANGED notDevVars

\* services.StartSync
StartSync ==
    /\ dev.pc = "sync"
    /\ IF dev.cmd.Sync
       THEN \E ok \in BOOLEAN :
               LET tried == [dev EXCEPT !.steps = Append(@, "sync")] IN
               dev' = IF ok
                      THEN [tried EXCEPT !.syncClient = "running",
                                         !.pc = "watch"]
                      ELSE Returning(tried, "syncError")
       ELSE dev' = [dev EXCEPT !.pc = "watch"]
    /\ UNCHANGED notDevVars

\* watch.New and watcher.Start, when the pipeline is not skipped and the
\* config has auto reload paths.
StartWatcher ==
    /\ dev.pc = "watch"
    /\ IF dev.cmd.SkipPipeline = FALSE /\ dev.config.AutoReload
       THEN \E ok \in BOOLEAN :
               LET tried == [dev EXCEPT !.steps = Append(@, "watch")] IN
               dev' = IF ok
                      THEN [tried EXCEPT !.watcher = "started",
                                         !.pc = "terminal"]
                      ELSE Returning(tried, "watchError")
       ELSE dev' = [dev EXCEPT !.pc = "terminal"]
    /\ UNCHANGED notDevVars

\* services.StartTerminal is entered.
StartTerminal ==
    /\ dev.pc = "terminal"
    /\ UsesTerminal
    /\ dev' = [dev EXCEPT !.steps = Append(@, "terminal"),
                          !.pc = "inTerminal"]
    /\ UNCHANGED notDevVars

\* services.StartAttach is entered.
StartAttach ==
    /\ dev.pc = "terminal"
    /\ ~UsesTerminal
    /\ dev' = [dev EXCEPT !.steps = Append(@, "attach"), !.pc = "inAttach"]
    /\ UNCHANGED notDevVars

\* A receive on the unbuffered exit channel meets the send of callback c:
\* the receiver has the reload error to return.
ReceiveExit(c) ==
    /\ dev.callbacks[c] = "sending"
    /\ dev' = Returning([dev EXCEPT !.callbacks[c] = "sent"], "reload")

\* The terminal ends, with nil or an error of its own, or with what it
\* received on the exit channel.
TerminalReturns ==
    /\ dev.pc = "inTerminal"
    /\ \/ \E err \in {"nil", "terminalError"} :
             dev' = Returning(dev, err)
       \/ \E c \in Callbacks : ReceiveExit(c)
    /\ UNCHANGED notDevVars

\* The log attach ends: a reload error received on the exit channel is
\* returned, any other error is logged and startServices goes on to wait.
AttachReturns ==
    /\ dev.pc = "inAttach"
    /\ \/ dev' = [dev EXCEPT !.pc = "exitChan"]
       \/ \E c \in Callbacks : ReceiveExit(c)
    /\ UNCHANGED notDevVars

\* return <-exitChan
WaitExit ==
    /\ dev.pc = "exitChan"
    /\ \E c \in Callbacks : ReceiveExit(c)
    /\ UNCHANGED notDevVars

\* buildAndDeploy after startServices returned: a reload error reloads, any
\* other error is returned as it is, nil is returned.
ServicesReturned ==
    /\ dev.pc = "servicesReturned"
    /\ dev' = IF dev.servicesErr = "reload"
              THEN [dev EXCEPT !.pc = "loadConfig"]
              ELSE [dev EXCEPT !.pc = "returned",
                               !.result = dev.servicesErr]
    /\ UNCHANGED notDevVars

\* cmd.loadConfig (log.Fatal on error), then buildAndDeploy again.
ReloadConfig ==
    /\ dev.pc = "loadConfig"
    /\ dev.reloads < MaxReloads
    /\ \/ \E loaded \in Configs :
             dev' = [dev EXCEPT !.config = loaded,
                                !.pc = "buildAndDeploy",
                                !.steps = <<>>,
                                !.reloads = @ + 1]
       \/ dev' = [dev EXCEPT !.pc = "fatal"]
    /\ UNCHANGED notDevVars

\* once.Do(f) runs f for the first caller only.
onceDoRunsAlways == TRUE

onceDoRuns == dev.once = "new"

\* The watcher calls the callback: the first call runs the function of
\* once.Do, a call during that run waits for it, a later call returns at
\* once.
CallbackFires(c) ==
    /\ dev.watcher = "started"
    /\ dev.callbacks[c] = "none"
    /\ dev' = IF onceDoRuns
              THEN [dev EXCEPT !.once = "running",
                               !.callbacks[c] = "sleeping"]
              ELSE [dev EXCEPT !.callbacks[c] =
                       IF dev.once = "running" THEN "blocked" ELSE "skipped"]
    /\ UNCHANGED notDevVars

\* After the two seconds the function reaches exitChan <- &reloadError{}.
CallbackSends(c) ==
    /\ dev.callbacks[c] = "sleeping"
    /\ dev' = [dev EXCEPT !.callbacks[c] = "sending",
                          !.reloadSends = @ + 1]
    /\ UNCHANGED notDevVars

\* The send was received: the function and once.Do return.
CallbackSent(c) ==
    /\ dev.callbacks[c] = "sent"
    /\ dev' = [dev EXCEPT !.callbacks[c] = "returned", !.once = "done"]
    /\ UNCHANGED notDevVars

\* A call that waited in once.Do returns.
CallbackUnblocked(c) ==
    /\ dev.callbacks[c] = "blocked"
    /\ dev.once = "done"
    /\ dev' = [dev EXCEPT !.callbacks[c] = "returned"]
    /\ UNCHANGED notDevVars

\* The steps the program takes by itself, up to the terminal or log attach.
ProgramStep ==
    \/ DeployDependencies
    \/ SkipPipeline
    \/ BuildAll
    \/ SaveBuiltConfig
    \/ DeployAll
    \/ SaveDeployedConfig
    \/ ExitAfterDeploy
    \/ StartPortForwarding
    \/ StartSync
    \/ StartWatcher
    \/ StartTerminal
    \/ StartAttach
    \/ Deferred
    \/ ServicesReturned
    \/ ReloadConfig

NextDev ==
    \/ ProgramStep
    \/ TerminalReturns
    \/ AttachReturns
    \/ WaitExit
    \/ \E c \in Callbacks : CallbackFires(c)
    \/ \E c \in Callbacks : CallbackSends(c)
    \/ \E c \in Callbacks : CallbackSent(c)
    \/ \E c \in Callbacks : CallbackUnblocked(c)

SpecDev == InitDev /\ [][NextDev]_vars /\ WF_vars(ProgramStep)

(***************************************************************************)
(* Package configutil: InitConfig, GetBaseConfig, GetConfig and            *)
(* GetConfigWithoutDefaults on the global config.  A config is its Images  *)
(* and its Cluster.KubeContext, each unset or set.                         *)
(*                                                                         *)
(* configutil.files are the config files on disk, configutil.config is the *)
(* global config, configutil.getConfigOnce and configutil.validateOnce the *)
(* two sync.Once; configutil.returned is the last call that returned, with *)
(* its value, configutil.calls gives per goroutine the call it is in, with *)
(* its loadOverwrites and its position, and configutil.process tells       *)
(* whether log.Fatal or a panic ended the process.                         *)
(***************************************************************************)
ConfigValues == {"unset", "a", "b"}

ConfigContents == [Images : ConfigValues, KubeContext : ConfigValues]

\* An override that loadConfigFromWrapper cannot load.
Unloadable == [unloadable |-> TRUE]

\* The override files of the config definition, in order, each with its
\* content or not loadable.
OverrideLists ==
    UNION {[1..n -> ConfigContents \cup {Unloadable}] : n \in 0..MaxOverrides}

\* devspace.yaml (or the config of devspace-configs.yaml) with its
\* overrides, and the kube context of the cloud space in generated.yaml:
\* no space, a space without kube context, or a context.
Files == [readable : BOOLEAN, base : ConfigContents,
          overrides : OverrideLists, cloudSpace : {"none", "", "space"}]

\* latest.New()
New == [Images |-> "unset", KubeContext |-> "unset"]

\* Merge(&config, overwrite): the fields set in the overwrite replace those
\* of the config.
Merge(cfg, overwrite) ==
    [k \in DOMAIN cfg |->
        IF overwrite[k] # "unset" THEN overwrite[k] ELSE cfg[k]]

\* The loop over the overrides: each is loaded and merged in its turn, and
\* the first that cannot be loaded ends the loop with its error.
RECURSIVE MergeOverrides(_, _)
MergeOverrides(cfg, overrides) ==
    IF overrides = <<>>
    THEN [config |-> cfg, err |-> "nil"]
    ELSE IF Head(overrides) = Unloadable
    THEN [config |-> Nil, err |-> "Error loading override config"]
    ELSE MergeOverrides(Merge(cfg, Head(overrides)), Tail(overrides))

loadBaseConfigFromPath(loadOverwrites) ==
    LET files == configutil.files IN
    IF ~files.readable
    THEN [config |-> Nil, err |-> "Loading config"]
    ELSE LET base == Merge(New, files.base)
             overridden == MergeOverrides(base, files.overrides)
             merged == overridden.config
         IN  IF ~loadOverwrites
             THEN [config |-> base, err |-> "nil"]
             ELSE IF overridden.err # "nil"
             THEN overridden
             ELSE IF files.cloudSpace # "none" /\ merged.KubeContext = "unset"
             THEN IF files.cloudSpace = ""
                  THEN [config |-> Nil, err |-> "No space configured"]
                  ELSE [config |->
                           [merged EXCEPT !.KubeContext = files.cloudSpace],
                        err |-> "nil"]
             ELSE [config |-> merged, err |-> "nil"]

\* The goroutines that call into the package.
Callers == {"A", "B"}

NotCalling == [fn |-> "none", loadOverwrites |-> FALSE, pc |-> "idle"]

InitConfigutil ==
    /\ configutil \in [files : Files, config : {Nil}, getConfigOnce : {"new"},
                       validateOnce : {"new"}, returned : {[fn |-> "none"]},
                       calls : {[g \in Callers |-> NotCalling]},
                       process : {"running"}]
    /\ NotConfigutilIdle

\* getConfigOnce.Do(func() { config = latest.New() }); return config.  A
\* call waits while another goroutine runs the function of getConfigOnce.
InitConfig ==
    /\ configutil.process = "running"
    /\ configutil.getConfigOnce # "running"
    /\ LET config == IF configutil.getConfigOnce = "new" THEN New
                     ELSE configutil.config
       IN  configutil' = [configutil EXCEPT
                             !.config = config,
                             !.getConfigOnce = "done",
                             !.returned = [fn |-> "InitConfig",
                                           value |-> config]]
    /\ UNCHANGED notConfigutilVars

\* Where a call goes on after GetConfigWithoutDefaults: GetBaseConfig and
\* GetConfig call ValidateOnce, GetConfigWithoutDefaults itself returns.
AfterOnce(fn) ==
    IF fn = "GetConfigWithoutDefaults" THEN "return" ELSE "ValidateOnce"

\* Goroutine g calls fn and reaches getConfigOnce.Do: with the Once done the
\* function is skipped; the first caller runs it and starts with
\* generated.LoadConfig, which succeeds or ends in log.Panicf; a call waits
\* while another goroutine runs it.
getConfigWithoutDefaults(g, fn, loadOverwrites) ==
    /\ configutil.process = "running"
    /\ configutil.calls[g] = NotCalling
    /\ configutil.getConfigOnce # "running"
    /\ LET calling == [NotCalling EXCEPT !.fn = fn,
                                         !.loadOverwrites = loadOverwrites]
       IN
       IF configutil.getConfigOnce = "done"
       THEN configutil' = [configutil EXCEPT !.calls[g] =
                              [calling EXCEPT !.pc = AfterOnce(fn)]]
       ELSE \E generatedOk \in BOOLEAN :
               configutil' =
                  IF generatedOk
                  THEN [configutil EXCEPT
                           !.getConfigOnce = "running",
                           !.calls[g] = [calling EXCEPT
                                            !.pc = "loadBaseConfigFromPath"]]
                  ELSE [configutil EXCEPT !.process = "panicked"]
    /\ UNCHANGED notConfigutilVars

GetConfigWithoutDefaults(g, loadOverwrites) ==
    getConfigWithoutDefaults(g, "GetConfigWithoutDefaults", loadOverwrites)

GetBaseConfig(g) == getConfigWithoutDefaults(g, "GetBaseConfig", FALSE)

GetConfig(g) == getConfigWithoutDefaults(g, "GetConfig", TRUE)

\* config, configDefinition, err = loadBaseConfigFromPath(...): the global
\* config is assigned, and an error ends the process in log.Fatal.
LoadBaseConfig(g) ==
    /\ configutil.process = "running"
    /\ configutil.calls[g].pc = "loadBaseConfigFromPath"
    /\ LET loaded ==
              loadBaseConfigFromPath(configutil.calls[g].loadOverwrites)
       IN  configutil' =
              IF loaded.err # "nil"
              THEN [configutil EXCEPT !.config = loaded.config,
                                      !.process = "exited"]
              ELSE [configutil EXCEPT !.config = loaded.config,
                                      !.calls[g].pc = "SaveConfig"]
    /\ UNCHANGED notConfigutilVars

\* generated.SaveConfig: an error ends the process in log.Fatalf, with the
\* global config assigned; otherwise the function of getConfigOnce is over.
SaveGeneratedConfig(g) ==
    /\ configutil.process = "running"
    /\ configutil.calls[g].pc = "SaveConfig"
    /\ \E ok \in BOOLEAN :
          configutil' =
             IF ok
             THEN [configutil EXCEPT
                      !.getConfigOnce = "done",
                      !.calls[g].pc = AfterOnce(configutil.calls[g].fn)]
             ELSE [configutil EXCEPT !.process = "exited"]
    /\ UNCHANGED notConfigutilVars

\* validateOnce.Do(func() { validate(config) }): the first call validates
\* the config as it is, with log.Fatal on an error and a nil dereference
\* when no config was set; a later call does nothing.
validateOnceDo(valid) ==
    IF configutil.validateOnce = "done"
    THEN configutil
    ELSE IF configutil.config = Nil
    THEN [configutil EXCEPT !.process = "panicked"]
    ELSE IF ~valid
    THEN [configutil EXCEPT !.process = "exited"]
    ELSE [configutil EXCEPT !.validateOnce = "done"]

\* ValidateOnce() called on its own.
ValidateOnce ==
    /\ configutil.process = "running"
    /\ \E valid \in BOOLEAN : configutil' = validateOnceDo(valid)
    /\ UNCHANGED notConfigutilVars

\* ValidateOnce() in GetBaseConfig and GetConfig.
CallValidateOnce(g) ==
    /\ configutil.process = "running"
    /\ configutil.calls[g].pc = "ValidateOnce"
    /\ \E valid \in BOOLEAN :
          LET validated == validateOnceDo(valid) IN
          configutil' =
             IF validated.process # "running"
             THEN validated
             ELSE [validated EXCEPT !.calls[g].pc = "return"]
    /\ UNCHANGED notConfigutilVars

\* return config
ReturnConfig(g) ==
    /\ configutil.process = "running"
    /\ configutil.calls[g].pc = "return"
    /\ configutil' = [configutil EXCEPT
                         !.returned = [fn |-> configutil.calls[g].fn,
                                       value |-> configutil.config],
                         !.calls[g] = NotCalling]
    /\ UNCHANGED notConfigutilVars

NextConfigutil ==
    \/ InitConfig
    \/ \E g \in Callers : \E loadOverwrites \in BOOLEAN :
          GetConfigWithoutDefaults(g, loadOverwrites)
    \/ \E g \in Callers : GetBaseConfig(g)
    \/ \E g \in Callers : GetConfig(g)
    \/ \E g \in Callers : LoadBaseConfig(g)
    \/ \E g \in Callers : SaveGeneratedConfig(g)
    \/ ValidateOnce
    \/ \E g \in Callers : CallValidateOnce(g)
    \/ \E g \in Callers : ReturnConfig(g)

SpecConfigutil == InitConfigutil /\ [][NextConfigutil]_vars

(***************************************************************************)
(* kubectl.ExecBuffered (kubectl/exec.go): the command's output goes to    *)
(* two temporary files, which are read back into the returned buffers.     *)
(*                                                                         *)
(* kubectl.input tells what the command in the container does and which    *)
(* local file operation fails; kubectl.return is what the call returned.   *)
(***************************************************************************)
Bytes == {0, 1}

ByteStrings == UNION {[1..n -> Bytes] : n \in 0..MaxBytes}

\* The result of ExecStream: nil, a kubectlExec.CodeExitError, another error.
KubeExecErrors == {"nil", "CodeExitError", "error"}

\* The local file operation of ExecBuffered that fails, if one does.
IOErrors == {"none", "create stdout", "create stderr", "open stdout",
             "read stdout", "open stderr", "read stderr"}

ExecInputs == [stdout : ByteStrings, stderr : ByteStrings,
               kubeExecError : KubeExecErrors, ioError : IOErrors]

\* os.Open(name): a handle at the start of the file.
osOpen(name) == [name |-> name, offset |-> 0]

\* The bytes buffer.ReadFrom(file) reads: from the offset of the handle to
\* the end of the file.
ReadFrom(fs, file) ==
    SubSeq(fs[file.name], file.offset + 1, Len(fs[file.name]))

\* The handle after buffer.ReadFrom(file): at the end of the file.
AfterReadFrom(fs, file) == [file EXCEPT !.offset = Len(fs[file.name])]

NoBuffers(err) == [called |-> TRUE, stdout |-> Nil, stderr |-> Nil,
                   err |-> err]

ExecBuffered(in) ==
    IF in.ioError = "create stdout" \/ in.ioError = "create stderr"
    THEN NoBuffers("create temp file")
    ELSE IF in.kubeExecError = "error"
    THEN NoBuffers("error")
    ELSE
    \* ExecStream wrote the temporary files.
    LET fs == [name \in {"stdoutOutput", "stderrOutput"} |->
                  IF name = "stdoutOutput" THEN in.stdout ELSE in.stderr]
    IN
    IF in.ioError = "open stdout"
    THEN NoBuffers("open stdout file")
    ELSE
    LET stdoutOutput == osOpen("stdoutOutput")
        stdoutBuffer == ReadFrom(fs, stdoutOutput)
        stdoutRead == AfterReadFrom(fs, stdoutOutput)
    IN
    IF in.ioError = "read stdout"
    THEN NoBuffers("read")
    ELSE IF in.ioError = "open stderr"
    THEN NoBuffers("open stderr file")
    ELSE
    \* stderrOutput, err = os.Open(stdoutOutput.Name()), and then
    \* stderrBuffer.ReadFrom(stdoutOutput)
    LET stderrOutput == osOpen(stdoutRead.name)
        stderrBuffer == ReadFrom(fs, stdoutRead)
    IN
    IF in.ioError = "read stderr"
    THEN NoBuffers("read")
    ELSE [called |-> TRUE, stdout |-> stdoutBuffer, stderr |-> stderrBuffer,
          err |-> in.kubeExecError]

InitKubectl ==
    /\ kubectl \in [input : ExecInputs, return : {[called |-> FALSE]}]
    /\ NotKubectlIdle

CallExecBuffered ==
    /\ ~kubectl.return.called
    /\ kubectl' = [kubectl EXCEPT !.return = ExecBuffered(kubectl.input)]
    /\ UNCHANGED notKubectlVars

NextKubectl == CallExecBuffered

SpecKubectl == InitKubectl /\ [][NextKubectl]_vars

(***************************************************************************)
(* kaniko Builder.BuildImage (builder/kaniko/kaniko.go): the build pod is  *)
(* generated for a Dockerfile, the context and the Dockerfile are copied   *)
(* into its init container, and the build runs.  The calls into            *)
(* Kubernetes and the helper succeed or fail.                              *)
(*                                                                         *)
(* kaniko.args are the arguments and kaniko.pc the position of the call;   *)
(* kaniko.dockerfilePath is the dockerfilePath of the function and         *)
(* kaniko.blockDockerfilePath the one declared in the entrypoint block;    *)
(* kaniko.tempDir is the temporary directory, kaniko.buildPod the build    *)
(* pod, kaniko.copied what was copied into the build container, in order,  *)
(* and kaniko.err the returned error.                                      *)
(***************************************************************************)
DockerfilePaths == {"Dockerfile", "dev/Dockerfile"}

\* helper.CreateTempDockerfile writes the Dockerfile with the overriding
\* entrypoint to a new temporary directory and returns its path.
TempDockerfile == "tmp/Dockerfile"

EntrypointParts == {"sh", "-c"}

\* entrypoint *[]*string: nil, empty, or the parts of the override.
NoEntrypoint == [isNil |-> TRUE, parts |-> <<>>]

Entrypoints ==
    {NoEntrypoint} \cup
    {[isNil |-> FALSE, parts |-> parts] :
        parts \in UNION {[1..n -> EntrypointParts] : n \in 0..MaxEntrypoint}}

ContextPath == "."

InitKaniko ==
    /\ \E args \in [dockerfilePath : DockerfilePaths,
                    entrypoint : Entrypoints] :
          kaniko = [args |-> args,
                    pc |-> "entrypoint",
                    dockerfilePath |-> args.dockerfilePath,
                    blockDockerfilePath |-> "undeclared",
                    tempDir |-> "none",
                    buildPod |-> Nil,
                    copied |-> <<>>,
                    err |-> "none"]
    /\ NotKanikoIdle

\* entrypoint != nil && len(*entrypoint) > 0
OverridesEntrypoint ==
    /\ ~kaniko.args.entrypoint.isNil
    /\ Len(kaniko.args.entrypoint.parts) > 0

\* BuildImage returns err; the deferred os.RemoveAll removes the temporary
\* directory.
BuildImageReturns(k, err) ==
    [k EXCEPT !.err = err,
              !.pc = "returned",
              !.tempDir = IF @ = "created" THEN "removed" ELSE @]

\* The build pod after intr.Run: deleteBuildPod deletes it.
Deleted(pod) == [pod EXCEPT !.status = "deleted"]

\* The call after the deferred deleteBuildPod.
WithoutBuildPod == [kaniko EXCEPT !.buildPod = Deleted(@)]

\* The entrypoint block: dockerfilePath, err := helper.CreateTempDockerfile(
\* dockerfilePath, *entrypoint) declares a dockerfilePath of the block; the
\* dockerfilePath of the function keeps its value.
CreateTempDockerfile ==
    /\ kaniko.pc = "entrypoint"
    /\ IF OverridesEntrypoint
       THEN \E ok \in BOOLEAN :
               kaniko' =
                  IF ok
                  THEN [kaniko EXCEPT !.blockDockerfilePath = TempDockerfile,
                                      !.tempDir = "created",
                                      !.pc = "getBuildPod"]
                  ELSE BuildImageReturns(kaniko, "create temp dockerfile")
       ELSE kaniko' = [kaniko EXCEPT !.pc = "getBuildPod"]
    /\ UNCHANGED notKanikoVars

\* b.getBuildPod(buildID, options, dockerfilePath)
GetBuildPod ==
    /\ kaniko.pc = "getBuildPod"
    /\ \E ok \in BOOLEAN :
          kaniko' =
             IF ok
             THEN [kaniko EXCEPT
                      !.buildPod = [dockerfile |-> kaniko.dockerfilePath,
                                    status |-> "generated"],
                      !.pc = "create"]
             ELSE BuildImageReturns(kaniko, "get build pod")
    /\ UNCHANGED notKanikoVars

\* Pods.Create, and the wait for the init container.
CreateBuildPod ==
    /\ kaniko.pc = "create"
    /\ \E out \in {"running", "Unable to create build pod",
                   "Timeout waiting for init container"} :
          kaniko' =
             IF out = "running"
             THEN [kaniko EXCEPT !.buildPod.status = "init",
                                 !.pc = "copyContext"]
             ELSE IF out = "Unable to create build pod"
             THEN BuildImageReturns(kaniko, out)
             ELSE BuildImageReturns(WithoutBuildPod, out)
    /\ UNCHANGED notKanikoVars

\* kubectl.GetRestConfig, build.ReadDockerignore and
\* kubectl.Copy(..., contextPath, ignoreRules)
CopyContext ==
    /\ kaniko.pc = "copyContext"
    /\ \E out \in {"copied", "get rest config", "read dockerignore",
                   "Error uploading files to container"} :
          kaniko' =
             IF out = "copied"
             THEN [kaniko EXCEPT !.copied = Append(@, ContextPath),
                                 !.pc = "copyDockerfile"]
             ELSE BuildImageReturns(WithoutBuildPod, out)
    /\ UNCHANGED notKanikoVars

\* kubectl.Copy(..., dockerfilePath, ignoreRules)
CopyDockerfile ==
    /\ kaniko.pc = "copyDockerfile"
    /\ \E ok \in BOOLEAN :
          kaniko' =
             IF ok
             THEN [kaniko EXCEPT
                      !.copied = Append(@, kaniko.dockerfilePath),
                      !.pc = "build"]
             ELSE BuildImageReturns(WithoutBuildPod,
                                    "Error uploading files to container")
    /\ UNCHANGED notKanikoVars

\* The done file is touched, the kaniko container starts, its logs are
\* streamed and its exit code is checked.
RunBuild ==
    /\ kaniko.pc = "build"
    /\ \E out \in {"nil", "Error executing command in init container",
                   "Timeout waiting for kaniko build pod",
                   "Error during printling build logs",
                   "Error checking if build was successful",
                   "Error building image"} :
          kaniko' = BuildImageReturns(WithoutBuildPod, out)
    /\ UNCHANGED notKanikoVars

NextKaniko ==
    \/ CreateTempDockerfile
    \/ GetBuildPod
    \/ CreateBuildPod
    \/ CopyContext
    \/ CopyDockerfile
    \/ RunBuild

SpecKaniko == InitKaniko /\ [][NextKaniko]_vars

(***************************************************************************)
(* helm.NewClient (helm/client.go): goroutines call NewClient for a tiller *)
(* namespace; createNewClient succeeds or fails.                           *)
(*                                                                         *)
(* helm.helmClientsMutex and helm.helmClients are the package variables;   *)
(* helm.pc, helm.tillerNamespace and helm.return give, per goroutine, its  *)
(* position, its argument and what its last call returned; helm.creations  *)
(* counts the creations that succeeded and failed per namespace, and       *)
(* helm.calls the calls made.                                              *)
(***************************************************************************)
Goroutines == 1..MaxGoroutines

TillerNamespaces == {"tiller-a", "tiller-b"}

NoReturn == [client |-> 0, err |-> "none"]

InitHelm ==
    /\ helm = [helmClientsMutex |-> "unlocked",
               helmClients |-> <<>>,
               pc |-> [g \in Goroutines |-> "idle"],
               tillerNamespace |-> [g \in Goroutines |-> "tiller-a"],
               return |-> [g \in Goroutines |-> NoReturn],
               creations |-> [ns \in TillerNamespaces |->
                                 [ok |-> 0, failed |-> 0]],
               calls |-> 0]
    /\ NotHelmIdle

\* A goroutine calls NewClient(config, ns, log, upgradeTiller).
CallNewClient(g, ns) ==
    /\ helm.pc[g] = "idle"
    /\ helm.calls < MaxCalls
    /\ helm' = [helm EXCEPT !.calls = @ + 1,
                            !.pc[g] = "Lock",
                            !.tillerNamespace[g] = ns,
                            !.return[g] = NoReturn]
    /\ UNCHANGED notHelmVars

\* helmClientsMutex.Lock() goes through when the mutex is unlocked.
MutexAcquirableAlways == TRUE

MutexAcquirable == helm.helmClientsMutex = "unlocked"

HelmLock(g) ==
    /\ helm.pc[g] = "Lock"
    /\ MutexAcquirable
    /\ helm' = [helm EXCEPT !.helmClientsMutex = "locked",
                            !.pc[g] = "lookup"]
    /\ UNCHANGED notHelmVars

\* if client, ok := helmClients[tillerNamespace]; ok { return client, nil },
\* with the deferred Unlock.
LookupClient(g) ==
    /\ helm.pc[g] = "lookup"
    /\ helm' =
          IF helm.tillerNamespace[g] \in DOMAIN helm.helmClients
          THEN [helm EXCEPT
                   !.return[g] =
                      [client |-> helm.helmClients[helm.tillerNamespace[g]],
                       err |-> "nil"],
                   !.pc[g] = "idle",
                   !.helmClientsMutex = "unlocked"]
          ELSE [helm EXCEPT !.pc[g] = "createNewClient"]
    /\ UNCHANGED notHelmVars

\* The clients created so far; a new client is a new pointer.
ClientsCreated ==
    helm.creations["tiller-a"].ok + helm.creations["tiller-b"].ok

\* createNewClient returns a new client, which is stored and returned, or an
\* error, which is returned; the deferred Unlock.
CreateNewClient(g) ==
    /\ helm.pc[g] = "createNewClient"
    /\ \E ok \in BOOLEAN :
          LET ns == helm.tillerNamespace[g]
              client == ClientsCreated + 1
              returning == [helm EXCEPT !.pc[g] = "idle",
                                        !.helmClientsMutex = "unlocked"]
          IN  helm' =
                 IF ok
                 THEN [returning EXCEPT
                          !.helmClients =
                             [n \in DOMAIN helm.helmClients \cup {ns} |->
                                 IF n = ns THEN client
                                 ELSE helm.helmClients[n]],
                          !.return[g] = [client |-> client, err |-> "nil"],
                          !.creations[ns].ok = @ + 1]
                 ELSE [returning EXCEPT
                          !.return[g] = [client |-> 0, err |-> "error"],
                          !.creations[ns].failed = @ + 1]
    /\ UNCHANGED notHelmVars

NextHelm ==
    \/ \E g \in Goroutines : \E ns \in TillerNamespaces : CallNewClient(g, ns)
    \/ \E g \in Goroutines : HelmLock(g)
    \/ \E g \in Goroutines : LookupClient(g)
    \/ \E g \in Goroutines : CreateNewClient(g)

SpecHelm == InitHelm /\ [][NextHelm]_vars

(***************************************************************************)
(* Properties of the session, checked under Spec.                          *)
(***************************************************************************)
\* Is the path on the general ignore list?
Ignored(p) == ~ignoreMatcher.isNil /\ p \in ignoreMatcher.paths

\* The live file was edited after the snapshot was taken (its mtime, in
\* whole seconds, is after the snapshot's), or the tracked record no longer
\* has the snapshot's mtime and size.
EditedOrChanged(snapshot) ==
    LET live == localFS[snapshot.Name]
        tracked == fileMap[snapshot.Name]
    IN
    /\ live # NotExist
    /\ live.Mode = "file"
    /\ \/ live.ModTime.sec > snapshot.Mtime
       \/ IF tracked = Nil THEN FALSE
          ELSE tracked.Mtime # snapshot.Mtime \/ tracked.Size # snapshot.Size

\* C1: when a queued deletion of a local file is executed after the file was
\* edited (live mtime after the snapshot's) or after the tracked record
\* changed (mtime or size other than the snapshot's), shouldRemoveLocal
\* returns false and the local file stays as it is.
C1_ChangedFileNotDeleted ==
    [][\A snapshot \in removeQueue :
          (ExecuteRemoveLocal(snapshot) /\ EditedOrChanged(snapshot))
          => /\ call'.fn = "shouldRemoveLocal"
             /\ call'.result = FALSE
             /\ localFS'[snapshot.Name] = localFS[snapshot.Name]
             /\ fileMap' = fileMap]_vars

\* A deletion was executed on a file whose record still equals the snapshot
\* and that was edited after the snapshot: it was refused.
C1_Witness ==
    /\ call.fn = "shouldRemoveLocal"
    /\ call.tracked = call.fileInformation
    /\ call.fileInformation.IsDirectory = FALSE
    /\ call.live # NotExist
    /\ call.live.Mode = "file"
    /\ call.live.ModTime.sec > call.fileInformation.Mtime
    /\ call.result = FALSE
    /\ localFS[call.path] = call.live

\* The three-point check on the state before a deletion: the record exists,
\* the live entry exists with the directory flag of both, and for a file the
\* snapshot equals the record and the live mtime is not after the snapshot's.
SafeToRemoveLocal(snapshot) ==
    LET live == localFS[snapshot.Name]
        tracked == fileMap[snapshot.Name]
    IN
    /\ live # NotExist
    /\ tracked # Nil
    /\ (live.Mode = "dir") = tracked.IsDirectory
    /\ (live.Mode = "dir") = snapshot.IsDirectory
    /\ \/ snapshot.IsDirectory
       \/ /\ snapshot.Mtime = tracked.Mtime
          /\ snapshot.Size = tracked.Size
          /\ live.ModTime.sec <= snapshot.Mtime

\* C4: a fileMap entry is created or updated only by the completion of a
\* transfer in flight for its path, with that transfer's record (a download
\* having written the local file); it is removed only by a local deletion
\* that passed the three-point check and removed the file, or by a remote
\* deletion that shouldRemoveRemote allowed and that was executed; a
\* deletion that was refused or failed leaves the fileMap as it was; an
\* aborted transfer leaves the fileMap and the local tree as they were and
\* its path free, and the decision that dispatched it comes out true again
\* when the collectors evaluate the path as it still is.
C4_IndexChangesOnlyOnSuccess ==
    [][/\ \A p \in Paths :
            (fileMap'[p] # fileMap[p] /\ fileMap'[p] # Nil) =>
                \E t \in transfers :
                    /\ t.path = p
                    /\ t \notin transfers'
                    /\ fileMap'[p] = t.info
                    /\ call'.fn = IF t.dir = "up" THEN "commitUpload"
                                  ELSE "commitDownload"
                    /\ t.dir = "down" => localFS'[p] = EntryOfRecord(t.info)
       /\ \A p \in Paths :
            (fileMap'[p] # fileMap[p] /\ fileMap'[p] = Nil) =>
                \/ /\ call'.fn = "shouldRemoveLocal"
                   /\ call'.path = p
                   /\ call'.fileInformation \in removeQueue
                   /\ SafeToRemoveLocal(call'.fileInformation)
                   /\ localFS'[p] = NotExist
                \/ /\ call'.fn = "shouldRemoveRemote"
                   /\ call'.path = p
                   /\ call'.result = TRUE
                   /\ call'.removed = TRUE
                   /\ localFS[p] = NotExist
                   /\ remoteFS'[p] = NotExist
       /\ (/\ call' # call
           /\ call'.fn \in {"shouldRemoveRemote", "shouldRemoveLocal"}
           /\ ~call'.removed) => fileMap' = fileMap
       /\ \A t \in transfers :
            (t \notin transfers' /\ call'.fn = "abort") =>
                /\ fileMap' = fileMap
                /\ localFS' = localFS
                /\ \A u \in transfers' : u.path # t.path
                /\ (/\ t.dir = "up"
                    /\ state \in Running
                    /\ osLstat(t.path) # Nil
                    /\ RecordOfStat(t.path, osLstat(t.path)) = t.info) =>
                      shouldUpload(t.path, osLstat(t.path), Sync,
                                   state = "InitialReconciling")'
                /\ t.dir = "down" =>
                      \E change \in RemoteChanges :
                          /\ RecordOfChange(change) = t.info
                          /\ shouldDownload(change, Sync)']_vars

\* A transfer for a tracked path was aborted while the session was stopping.
C4_Witness ==
    /\ call.fn = "abort"
    /\ state = "Stopping"
    /\ fileMap[call.path] # Nil
    /\ ~InFlight(call.path)

DecisionFunctions ==
    {"shouldUpload", "shouldDownload", "shouldRemoveRemote", "shouldRemoveLocal"}

\* C5: a decision function is evaluated, and the fileMap changed, only by the
\* worker that holds the fileIndex lock, which it still holds after the step
\* (decision and mutation are one critical section); and no two transfers
\* for one path are in flight together.
C5_LockedAndSerialized ==
    [][/\ (call' # call /\ call'.fn \in DecisionFunctions) =>
              /\ mutex \in Workers
              /\ call'.worker = mutex
              /\ mutex' = mutex
       /\ fileMap' # fileMap =>
              /\ mutex \in Workers
              /\ call'.worker = mutex
              /\ mutex' = mutex
       /\ \A t \in transfers', u \in transfers' : t.path = u.path => t = u
       /\ \A t \in transfers' \ transfers : \A u \in transfers : u.path # t.path
      ]_vars

\* An upload is in flight while the local file has changed again: the second
\* change waits for the transfer.
C5_Witness ==
    \E t \in transfers :
        /\ t.dir = "up"
        /\ mutex = "upstream"
        /\ state = "Watching"
        /\ osLstat(t.path) # Nil
        /\ osLstat(t.path).Mode = "file"
        /\ osLstat(t.path).ModTime.sec > t.info.Mtime
        /\ ~ENABLED CollectLocalChange(t.path)

\* C7 (as claimed): a path the general ignore matcher matches is never in
\* the fileMap.
C7_IgnoredNeverIndexed ==
    \A p \in Paths : Ignored(p) => fileMap[p] = Nil

\* C9: right after an upload committed its record, while the local file
\* still has the committed mtime (whole seconds), size and kind, shouldUpload
\* is false for it, in the initial pass and after it.
C9_UploadIdempotent ==
    (/\ call.fn = "commitUpload"
     /\ localFS[call.path] # NotExist
     /\ localFS[call.path].ModTime.sec = fileMap[call.path].Mtime
     /\ localFS[call.path].Size = fileMap[call.path].Size
     /\ (localFS[call.path].Mode = "dir") = fileMap[call.path].IsDirectory)
    => \A isInitial \in BOOLEAN :
          shouldUpload(call.path, osLstat(call.path), Sync, isInitial) = FALSE

\* An upload of a regular file with a sub-second mtime was committed and the
\* file is as it was.
C9_Witness ==
    /\ call.fn = "commitUpload"
    /\ localFS[call.path] # NotExist
    /\ localFS[call.path].Mode = "file"
    /\ localFS[call.path].ModTime.frac
    /\ localFS[call.path].ModTime.sec = fileMap[call.path].Mtime
    /\ localFS[call.path].Size = fileMap[call.path].Size
    /\ fileMap[call.path].IsDirectory = FALSE
    /\ ~shouldUpload(call.path, osLstat(call.path), Sync, TRUE)

\* The remote changes of one path.
ChangesOf(p) ==
    [Path : {p}, MtimeUnix : Times, Size : Sizes, IsDir : BOOLEAN]

\* C13: in every state of the session shouldDownload is true for every
\* remote change of a path without a tracked record and false for every
\* remote change flagged IsDir of a path with one; so a remote directory
\* change collected while the record is in the fileMap dispatches nothing,
\* and a directory download is only in flight for a path without a record.
C13_DirectoryDownloadedOnce ==
    /\ \A p \in Paths :
          IF fileMap[p] = Nil
          THEN \A change \in ChangesOf(p) :
                  shouldDownload(change, Sync) = TRUE
          ELSE \A change \in ChangesOf(p) :
                  change.IsDir => shouldDownload(change, Sync) = FALSE
    /\ (/\ call.fn = "shouldDownload"
        /\ call.change.IsDir
        /\ fileMap[call.path] # Nil)
       => (call.result = FALSE /\ ~InFlight(call.path))
    /\ \A t \in transfers :
          (t.dir = "down" /\ t.info.IsDirectory) => fileMap[t.path] = Nil

\* A directory exists locally with its record in the fileMap; the remote side
\* reported the directory again and nothing was dispatched.
C13_Witness ==
    /\ call.fn = "shouldDownload"
    /\ call.change.IsDir
    /\ fileMap[call.path] # Nil
    /\ fileMap[call.path].IsDirectory
    /\ localFS[call.path] = DirEntry
    /\ call.result = FALSE
    /\ transfers = {}

\* The remote change was applied: the record of its path has the change's
\* mtime and size.
Applied(change) ==
    IF fileMap[change.Path] = Nil THEN FALSE
    ELSE /\ fileMap[change.Path].Mtime = change.MtimeUnix
         /\ fileMap[change.Path].Size = change.Size

\* The remote changes, of a file and of a directory, that report the mtime
\* and size of the record of a tracked path.
AppliedChanges(p) ==
    [Path : {p}, MtimeUnix : {fileMap[p].Mtime}, Size : {fileMap[p].Size},
     IsDir : BOOLEAN]

\* C16: a remote change whose mtime and size the record of its path already
\* has is refused by shouldDownload, and its evaluation by the remote
\* collector dispatched nothing and left the record as it was; for a path
\* whose record was removed shouldRemoveRemote is false and shouldRemoveLocal
\* is false for a nil snapshot and for every snapshot still queued, and the
\* execution of a queued deletion for it removed nothing and left the path
\* without a record.
C16_DuplicatesChangeNothing ==
    /\ \A p \in Paths :
          IF fileMap[p] = Nil
          THEN /\ shouldRemoveRemote(p, Sync) = FALSE
               /\ \A f \in {g \in removeQueue : g.Name = p} \cup {Nil} :
                     shouldRemoveLocal(p, f, Sync) = FALSE
          ELSE \A change \in AppliedChanges(p) :
                  Applied(change) /\ shouldDownload(change, Sync) = FALSE
    /\ (call.fn = "shouldDownload" /\ Applied(call.change)) =>
          /\ call.result = FALSE
          /\ ~InFlight(call.path)
          /\ fileMap[call.path] = call.tracked
    /\ (call.fn = "shouldRemoveLocal" /\ call.tracked = Nil) =>
          /\ call.result = FALSE
          /\ call.removed = FALSE
          /\ fileMap[call.path] = Nil

\* A file was downloaded and its record committed; the same remote change was
\* delivered again and refused.
C16_Witness ==
    /\ call.fn = "shouldDownload"
    /\ call.change.IsDir = FALSE
    /\ call.change.MtimeUnix > 0
    /\ fileMap[call.path] = RecordOfChange(call.change)
    /\ localFS[call.path] = EntryOfRecord(fileMap[call.path])
    /\ call.result = FALSE
    /\ transfers = {}

\* The stats of a local directory, with every mtime and size.
DirStats == [ModTime : ModTimes, Size : Sizes, Mode : {"dir"}]

\* C20: in every state of the session shouldUpload is false, in the initial
\* pass and after it, for every path with a tracked record and every live
\* stat that is a directory, whatever its mtime and size; so a local
\* directory collected while its record is in the fileMap dispatches nothing,
\* and a directory upload is only in flight for a path without a record.
C20_DirectoryUploadedOnce ==
    /\ \A p \in Paths :
          fileMap[p] # Nil =>
              \A stat \in DirStats, isInitial \in BOOLEAN :
                  IsDir(stat) /\ shouldUpload(p, stat, Sync, isInitial) = FALSE
    /\ (/\ call.fn = "shouldUpload"
        /\ call.isDir
        /\ fileMap[call.path] # Nil)
       => (call.result = FALSE /\ ~InFlight(call.path))
    /\ \A t \in transfers :
          (t.dir = "up" /\ t.info.IsDirectory) => fileMap[t.path] = Nil

\* A directory that is not ignored was uploaded and its record committed; the
\* local collector saw the directory again and nothing was dispatched.
C20_Witness ==
    /\ call.fn = "shouldUpload"
    /\ call.isDir
    /\ ~Ignored(call.path)
    /\ fileMap[call.path] # Nil
    /\ fileMap[call.path].IsDirectory
    /\ localFS[call.path] = DirEntry
    /\ call.result = FALSE
    /\ transfers = {}

\* C28: a change of a file whose path has a record is downloaded only with
\* an mtime not before the record's, and a download in flight for a path
\* with a record carries a file with an mtime not before the record's, so
\* that its commit does not move the record's mtime backwards.
C28_DownloadsNeverGoBack ==
    /\ IF call.fn = "shouldDownload"
       THEN (call.result /\ call.tracked # Nil /\ ~call.change.IsDir)
               => call.change.MtimeUnix >= call.tracked.Mtime
       ELSE TRUE
    /\ \A t \in transfers :
          (t.dir = "down" /\ fileMap[t.path] # Nil) =>
             /\ ~t.info.IsDirectory
             /\ t.info.Mtime >= fileMap[t.path].Mtime

\* A newer change of a tracked file was accepted and its download is in
\* flight.
C28_Witness ==
    /\ call.fn = "shouldDownload"
    /\ call.result
    /\ call.tracked # Nil
    /\ call.change.MtimeUnix > call.tracked.Mtime
    /\ \E t \in transfers :
          /\ t.dir = "down"
          /\ t.path = call.path
          /\ t.info.Mtime > fileMap[t.path].Mtime

(***************************************************************************)
(* Properties of the decision functions, checked under SpecEval.           *)
(***************************************************************************)
\* The inputs of a recorded shouldRemoveLocal call.
RLSnapshot == call.fileInformation
RLLive == localFS[call.path]
RLTracked == fileMap[call.fileInformation.Name]

\* C2: when the snapshot is a file, the local stat succeeds, a tracked record
\* exists and the three directory flags agree, shouldRemoveLocal is true
\* exactly when the snapshot's mtime and size equal the tracked record's and
\* the live mtime (whole seconds) is not after the snapshot's.
C2_RemoveLocalFileIff ==
    (/\ call.fn = "shouldRemoveLocal"
     /\ RLSnapshot # Nil
     /\ RLSnapshot.IsDirectory = FALSE
     /\ RLLive \in LocalEntry
     /\ RLTracked # Nil
     /\ (RLLive.Mode = "dir") = RLSnapshot.IsDirectory
     /\ (RLLive.Mode = "dir") = RLTracked.IsDirectory)
    => (call.result <=> (/\ RLSnapshot.Mtime = RLTracked.Mtime
                         /\ RLSnapshot.Size = RLTracked.Size
                         /\ RLLive.ModTime.sec <= RLSnapshot.Mtime))

\* A deletion goes ahead for a file whose live mtime lies in the snapshot's
\* second.
C2_Witness ==
    /\ call.fn = "shouldRemoveLocal"
    /\ RLSnapshot # Nil
    /\ RLSnapshot.IsDirectory = FALSE
    /\ RLLive \in LocalEntry
    /\ RLLive.Mode = "file"
    /\ RLTracked # Nil
    /\ RLTracked.IsDirectory = FALSE
    /\ RLTracked.Size = RLSnapshot.Size
    /\ RLLive.ModTime = [sec |-> RLSnapshot.Mtime, frac |-> TRUE]
    /\ RLLive.ModTime.sec > 0
    /\ call.result = TRUE

\* C3: an ambiguous deletion state resolves to not deleting: a nil snapshot,
\* a failed stat ("does not exist" or any other error), no tracked record, or
\* a live directory flag that differs from the snapshot's or the tracked
\* record's all give false; the function always returns a boolean.
C3_AmbiguousNeverRemoves ==
    call.fn = "shouldRemoveLocal" =>
        /\ call.result \in BOOLEAN
        /\ (\/ RLSnapshot = Nil
            \/ RLLive \in {NotExist, StatFailure}
            \/ RLTracked = Nil
            \/ (RLLive.Mode = "dir") # RLSnapshot.IsDirectory
            \/ (RLLive.Mode = "dir") # RLTracked.IsDirectory)
           => call.result = FALSE

\* A snapshot and a tracked record of an unchanged file, but the local path
\* is now a directory: not deleted.
C3_Witness ==
    /\ call.fn = "shouldRemoveLocal"
    /\ RLSnapshot # Nil
    /\ RLTracked = RLSnapshot
    /\ RLSnapshot.IsDirectory = FALSE
    /\ RLLive \in LocalEntry
    /\ RLLive.Mode = "dir"
    /\ RLLive.ModTime.sec <= RLSnapshot.Mtime
    /\ call.result = FALSE

\* C6 (as claimed): every one of the four decisions is false for a path the
\* general ignore matcher matches.
C6_IgnoredAlwaysFalse ==
    (call.fn # "none" /\ Ignored(call.path)) => call.result = FALSE

\* C8 (as claimed): a non-nil stat of a path that is not ignored and has no
\* tracked record gives shouldUpload = true.
C8_NewFileUploaded ==
    (/\ call.fn = "shouldUpload"
     /\ call.stat # Nil
     /\ ~Ignored(call.path)
     /\ fileMap[call.path] = Nil)
    => call.result = TRUE

\* C8 (amended): a non-nil stat that is not a symbolic link, of a path that is
\* not ignored and has no tracked record, gives shouldUpload = true, in the
\* initial pass and after it.
C8_NewNonSymlinkUploaded ==
    (/\ call.fn = "shouldUpload"
     /\ call.stat # Nil
     /\ call.stat.Mode # "symlink"
     /\ ~Ignored(call.path)
     /\ fileMap[call.path] = Nil)
    => call.result = TRUE

\* An untracked regular file under a configured matcher that does not match
\* it is uploaded in the initial pass.
C8_Witness ==
    /\ call.fn = "shouldUpload"
    /\ call.stat # Nil
    /\ call.stat.Mode = "file"
    /\ ~ignoreMatcher.isNil
    /\ ~Ignored(call.path)
    /\ fileMap[call.path] = Nil
    /\ call.isInitial
    /\ call.result = TRUE

\* C10: after the initial pass, for a path that is not ignored, with a tracked
\* record that is no symbolic link and a live regular file, shouldUpload is
\* false exactly when the local mtime in whole seconds and the local size
\* equal the tracked ones.
C10_SteadyStateUploadIff ==
    (/\ call.fn = "shouldUpload"
     /\ call.isInitial = FALSE
     /\ ~Ignored(call.path)
     /\ fileMap[call.path] # Nil
     /\ fileMap[call.path].IsSymbolicLink = FALSE
     /\ call.stat # Nil
     /\ call.stat.Mode = "file")
    => (call.result = FALSE <=>
           (/\ call.stat.ModTime.sec = fileMap[call.path].Mtime
            /\ call.stat.Size = fileMap[call.path].Size))

\* A local file older than its tracked record is uploaded after the initial
\* pass.
C10_Witness ==
    /\ call.fn = "shouldUpload"
    /\ call.isInitial = FALSE
    /\ ~Ignored(call.path)
    /\ fileMap[call.path] # Nil
    /\ fileMap[call.path].IsSymbolicLink = FALSE
    /\ call.stat # Nil
    /\ call.stat.Mode = "file"
    /\ call.stat.ModTime.sec < fileMap[call.path].Mtime
    /\ call.stat.Size = fileMap[call.path].Size
    /\ call.result = TRUE

\* C11: in the initial pass, for a path that is not ignored, with a tracked
\* record that is no symbolic link and a live regular file, shouldUpload is
\* true exactly when the local mtime (whole seconds) is after the tracked
\* mtime; a local mtime not after the tracked one gives false whatever the
\* sizes.
C11_InitialPassUploadIff ==
    (/\ call.fn = "shouldUpload"
     /\ call.isInitial = TRUE
     /\ ~Ignored(call.path)
     /\ fileMap[call.path] # Nil
     /\ fileMap[call.path].IsSymbolicLink = FALSE
     /\ call.stat # Nil
     /\ call.stat.Mode = "file")
    => (call.result = TRUE <=>
           call.stat.ModTime.sec > fileMap[call.path].Mtime)

\* A local file with the tracked mtime and another size is not uploaded in
\* the initial pass.
C11_Witness ==
    /\ call.fn = "shouldUpload"
    /\ call.isInitial = TRUE
    /\ ~Ignored(call.path)
    /\ fileMap[call.path] # Nil
    /\ fileMap[call.path].IsSymbolicLink = FALSE
    /\ call.stat # Nil
    /\ call.stat.Mode = "file"
    /\ call.stat.ModTime.sec = fileMap[call.path].Mtime
    /\ call.stat.Size # fileMap[call.path].Size
    /\ call.result = FALSE

\* C12: for a remote change that is no directory, of a path with a tracked
\* record, shouldDownload is true exactly when the change's mtime is after
\* the tracked mtime, or equals it while the sizes differ; an older change
\* gives false whatever its size.
C12_DownloadFileIff ==
    (/\ call.fn = "shouldDownload"
     /\ fileMap[call.path] # Nil
     /\ call.change.IsDir = FALSE)
    => (call.result = TRUE <=>
           (\/ call.change.MtimeUnix > fileMap[call.path].Mtime
            \/ /\ call.change.MtimeUnix = fileMap[call.path].Mtime
               /\ call.change.Size # fileMap[call.path].Size))

\* A remote change older than the tracked record, with another size, is not
\* downloaded.
C12_Witness ==
    /\ call.fn = "shouldDownload"
    /\ fileMap[call.path] # Nil
    /\ call.change.IsDir = FALSE
    /\ call.change.MtimeUnix < fileMap[call.path].Mtime
    /\ call.change.Size # fileMap[call.path].Size
    /\ call.result = FALSE

\* Is the path on the upload exclude list?
UploadIgnored(p) == ~uploadIgnoreMatcher.isNil /\ p \in uploadIgnoreMatcher.paths

\* C14: shouldRemoveRemote is true exactly when the general ignore matcher
\* does not match the path, the upload exclude matcher does not match it, a
\* tracked record exists for it and that record is no symbolic link.
C14_RemoveRemoteIff ==
    call.fn = "shouldRemoveRemote" =>
        (call.result = TRUE <=>
            (/\ ~Ignored(call.path)
             /\ ~UploadIgnored(call.path)
             /\ fileMap[call.path] # Nil
             /\ IF fileMap[call.path] = Nil THEN FALSE
                ELSE fileMap[call.path].IsSymbolicLink = FALSE))

\* A tracked file that only the upload exclude list matches is not deleted
\* on the remote side.
C14_Witness ==
    /\ call.fn = "shouldRemoveRemote"
    /\ ~Ignored(call.path)
    /\ UploadIgnored(call.path)
    /\ fileMap[call.path] # Nil
    /\ fileMap[call.path].IsSymbolicLink = FALSE
    /\ call.result = FALSE

\* Every upload exclude list: none configured, or one matching a set of paths.
UploadExcludeLists == {NilMatcher} \cup {Matcher(S) : S \in SUBSET Paths}

\* The session with another upload exclude list, everything else the same.
WithUploadExclude(m) == [Sync EXCEPT !.uploadIgnoreMatcher = m]

\* C15: the result of an evaluation of shouldUpload, shouldDownload or
\* shouldRemoveLocal is the result the same inputs give under every other
\* upload exclude list.
C15_UploadExcludeOnlyRemoveRemote ==
    \A m \in UploadExcludeLists :
        /\ call.fn = "shouldUpload" =>
              call.result = shouldUpload(call.path, call.stat,
                                         WithUploadExclude(m), call.isInitial)
        /\ call.fn = "shouldDownload" =>
              call.result = shouldDownload(call.change, WithUploadExclude(m))
        /\ call.fn = "shouldRemoveLocal" =>
              call.result = shouldRemoveLocal(call.path, call.fileInformation,
                                              WithUploadExclude(m))

\* A file the upload exclude list matches is uploaded.
C15_Witness ==
    /\ call.fn = "shouldUpload"
    /\ UploadIgnored(call.path)
    /\ ~Ignored(call.path)
    /\ call.stat # Nil
    /\ call.stat.Mode = "file"
    /\ call.result = TRUE

(***************************************************************************)
(* Properties of the loop without external edits, checked under SpecLoop.  *)
(***************************************************************************)
\* No transfer is in flight and none would be decided: shouldUpload is false
\* for every local path and shouldDownload for every remote one.
Quiet ==
    /\ transfers = {}
    /\ \A p \in Paths :
          /\ shouldUpload(p, osLstat(p), Sync, FALSE) = FALSE
          /\ remoteFS[p] # NotExist => shouldDownload(ChangeOf(p), Sync) = FALSE

\* C17: right after a download committed its record, shouldUpload is false
\* after the initial pass for the file it wrote; right after an upload
\* committed its record, shouldDownload is false for the remote change that
\* reports the record's mtime and size; and the loop reaches a state from
\* which on no transfer is in flight or decided.
C17_NoThrashing ==
    /\ [](call.fn = "commitDownload" =>
            /\ localFS[call.path] = EntryOfRecord(fileMap[call.path])
            /\ shouldUpload(call.path, osLstat(call.path), Sync, FALSE) = FALSE)
    /\ [](call.fn = "commitUpload" =>
            /\ remoteFS[call.path] = RemoteOfRecord(fileMap[call.path])
            /\ shouldDownload(ChangeOf(call.path), Sync) = FALSE)
    /\ <>[]Quiet

\* A local file with a sub-second mtime was uploaded and its record
\* committed, and the loop is quiet.
C17_Witness ==
    /\ call.fn = "commitUpload"
    /\ localFS[call.path] # NotExist
    /\ localFS[call.path].Mode = "file"
    /\ localFS[call.path].ModTime.frac
    /\ fileMap[call.path].Mtime = localFS[call.path].ModTime.sec
    /\ remoteFS[call.path] = RemoteOfRecord(fileMap[call.path])
    /\ Quiet

\* C18: for a snapshot flagged as directory, with a tracked record flagged as
\* directory and a local path that exists as a directory, shouldRemoveLocal
\* is true, whatever the mtimes and sizes of the snapshot, the record and the
\* live directory.
C18_DirectoryRoundTrip ==
    (/\ call.fn = "shouldRemoveLocal"
     /\ RLSnapshot # Nil
     /\ RLSnapshot.IsDirectory
     /\ RLTracked # Nil
     /\ RLTracked.IsDirectory
     /\ RLLive \in LocalEntry
     /\ RLLive.Mode = "dir")
    => call.result = TRUE

\* A tracked directory is deleted locally although its live mtime is after
\* the snapshot's and the record differs from the snapshot in mtime and size.
C18_Witness ==
    /\ call.fn = "shouldRemoveLocal"
    /\ RLSnapshot # Nil
    /\ RLSnapshot.IsDirectory
    /\ RLTracked # Nil
    /\ RLTracked.IsDirectory
    /\ RLLive \in LocalEntry
    /\ RLLive.Mode = "dir"
    /\ RLLive.ModTime.sec > RLSnapshot.Mtime
    /\ RLTracked.Mtime # RLSnapshot.Mtime
    /\ RLTracked.Size # RLSnapshot.Size
    /\ call.result = TRUE

\* C19 (as claimed): shouldRemoveLocal lets a local file be deleted only when
\* its name has a record in the fileMap, the record has the snapshot's mtime
\* and size, and the live file exists with the snapshot's mtime (whole
\* seconds) and size.
C19_DeletedOnlyIfUnchanged ==
    (/\ call.fn = "shouldRemoveLocal"
     /\ call.result = TRUE
     /\ RLSnapshot.IsDirectory = FALSE)
    => /\ RLTracked # Nil
       /\ RLTracked.Mtime = RLSnapshot.Mtime
       /\ RLTracked.Size = RLSnapshot.Size
       /\ RLLive \in LocalEntry
       /\ RLLive.ModTime.sec = RLSnapshot.Mtime
       /\ RLLive.Size = RLSnapshot.Size

\* C21: shouldUpload is false, in the initial pass and after it, whenever the
\* live local entry is a symbolic link, tracked or not, and whenever the
\* tracked record of the path is flagged as a symbolic link.
C21_SymlinksNeverUploaded ==
    (/\ call.fn = "shouldUpload"
     /\ \/ IF call.stat = Nil THEN FALSE ELSE call.stat.Mode = "symlink"
        \/ IF fileMap[call.path] = Nil THEN FALSE
           ELSE fileMap[call.path].IsSymbolicLink)
    => call.result = FALSE

\* A regular local file newer than its record, whose record is flagged as a
\* symbolic link, is not uploaded after the initial pass.
C21_Witness ==
    /\ call.fn = "shouldUpload"
    /\ call.isInitial = FALSE
    /\ ~Ignored(call.path)
    /\ call.stat # Nil
    /\ call.stat.Mode = "file"
    /\ fileMap[call.path] # Nil
    /\ fileMap[call.path].IsSymbolicLink
    /\ call.stat.ModTime.sec > fileMap[call.path].Mtime
    /\ call.result = FALSE

(***************************************************************************)
(* Properties of the session's life cycle, checked under SpecSession.      *)
(***************************************************************************)
\* The place of a state in Initializing -> InitialReconciling -> Watching ->
\* Stopping -> Stopped.
Rank(st) ==
    CASE st = "Initializing" -> 0
      [] st = "InitialReconciling" -> 1
      [] st = "Watching" -> 2
      [] st = "Stopping" -> 3
      [] st = "Stopped" -> 4

\* C22: the session never returns to an earlier state; it moves to the next
\* state of the chain, or from a state before Stopping to Stopping; it enters
\* Watching only from InitialReconciling with no transfer left in flight; and
\* with the "wait for initial sync" flag the start call has not returned
\* while the session is Initializing or InitialReconciling.
C22_SessionStateMachine ==
    /\ []((session.startCall = "returned" /\ session.waitInitialSync)
            => state \notin {"Initializing", "InitialReconciling"})
    /\ [][/\ Rank(state') >= Rank(state)
          /\ state' # state =>
                \/ Rank(state') = Rank(state) + 1
                \/ state' = "Stopping"
          /\ (state' = "Watching" /\ state # "Watching") =>
                (state = "InitialReconciling" /\ transfers = {})]_vars

\* With the flag set, the start call returned in Watching after a file of the
\* initial reconciliation was uploaded.
C22_Witness ==
    /\ session.waitInitialSync
    /\ session.startCall = "returned"
    /\ state = "Watching"
    /\ transfers = {}
    /\ \E p \in Paths : fileMap[p] # Nil

\* C23: a per-file local I/O error leaves the session in its running state,
\* dispatches nothing and delivers nothing on the status channel; a transport
\* failure, a timeout included, leads to the session in Stopping or Stopped
\* with the failure on the status channel; and once the failure is on the
\* status channel the session is not Watching.
C23_OnlyTransportFailuresStop ==
    /\ [][session'.diagnostics # session.diagnostics =>
            /\ state' = state
            /\ state' \in Running
            /\ transfers' = transfers
            /\ session'.statusChannel = session.statusChannel]_vars
    /\ [](session.transport \in session.statusChannel
            => state \in {"Stopping", "Stopped"})
    /\ [](session.transport \in TransportFailures =>
            <>(/\ state \in {"Stopping", "Stopped"}
               /\ session.transport \in session.statusChannel))

\* A path was skipped with a diagnostic, later the transport timed out: the
\* timeout is on the status channel and the session is stopping.
C23_Witness ==
    /\ session.diagnostics # {}
    /\ session.transport = "timeout"
    /\ "timeout" \in session.statusChannel
    /\ state = "Stopping"

(***************************************************************************)
(* Properties of devspace dev, checked under SpecDev.                      *)
(***************************************************************************)
Ran(step) == \E i \in 1..Len(dev.steps) : dev.steps[i] = step

Before(first, second) ==
    \E i, j \in 1..Len(dev.steps) :
        i < j /\ dev.steps[i] = first /\ dev.steps[j] = second

\* The step whose error the program reports.
FailedStep(err) ==
    CASE err = "buildError" -> {"build"}
      [] err = "saveError" -> {"saveConfig"}
      [] err = "deployError" -> {"deploy"}
      [] err = "portforwardingError" -> {"portforwarding"}
      [] err = "syncError" -> {"sync"}
      [] err = "watchError" -> {"watch"}
      [] err = "terminalError" -> {"terminal"}
      [] OTHER -> {}

InTerminalOrAttach == dev.pc \in {"inTerminal", "inAttach"}

\* The order of build, deploy, port forwarding and sync; an error ends the
\* run at the failing step; --skip-pipeline runs neither build nor deploy,
\* --exit-after-deploy starts no service.
DevStepOrder ==
    /\ [](Ran("deploy") => Before("build", "deploy"))
    /\ [](Ran("sync") /\ Ran("portforwarding")
            => Before("portforwarding", "sync"))
    /\ [](dev.pc \in {"returned", "servicesReturned", "deferred"} =>
            \A err \in {dev.result, dev.servicesErr} :
               \A step \in FailedStep(err) : dev.steps[Len(dev.steps)] = step)
    /\ [](dev.pc = "fatal" =>
            dev.steps[Len(dev.steps)]
               \in {"dependencies", "terminal", "attach"})
    /\ [][(dev.pc = "returned" \/ dev.pc = "fatal")
            => (dev'.pc = dev.pc /\ dev'.steps = dev.steps)]_vars
    /\ [](dev.cmd.SkipPipeline => ~Ran("build") /\ ~Ran("deploy"))
    /\ [](dev.cmd.ExitAfterDeploy =>
            /\ \A step \in {"portforwarding", "sync", "watch", "terminal",
                            "attach"} : ~Ran(step)
            /\ dev.portForwarder = "none"
            /\ dev.syncClient = "none"
            /\ dev.watcher = "none")

\* startServices was called: the program is past the pipeline, and if it
\* ended without error it went through the terminal or the log attach.
PastPipeline == dev.pc \notin {"buildAndDeploy", "afterPipeline"}

ServicesRan ==
    \/ dev.pc \notin {"returned", "fatal"}
    \/ dev.result # "nil"
    \/ Ran("terminal")
    \/ Ran("attach")

\* With --skip-pipeline startServices is called.
SkipPipelineStartsServices ==
    /\ [](dev.cmd.SkipPipeline /\ dev.pc = "buildAndDeploy"
            => <>PastPipeline)
    /\ [](dev.cmd.SkipPipeline => ServicesRan)

\* With --skip-pipeline and without --exit-after-deploy startServices is
\* called.
SkipPipelineStartsServicesUnlessExit ==
    /\ [](dev.cmd.SkipPipeline /\ ~dev.cmd.ExitAfterDeploy
            /\ dev.pc = "buildAndDeploy"
            => <>PastPipeline)
    /\ [](dev.cmd.SkipPipeline /\ ~dev.cmd.ExitAfterDeploy => ServicesRan)

\* C24 as stated: the steps run in the documented order, an error ends the
\* run at the failing step, --skip-pipeline skips build and deploy and still
\* starts the services, --exit-after-deploy starts none, and the terminal or
\* log attach is entered only with port forwarding and sync both started.
C24_DocumentedOrder ==
    /\ DevStepOrder
    /\ SkipPipelineStartsServices
    /\ [](InTerminalOrAttach =>
            /\ dev.portForwarder = "open"
            /\ dev.syncClient = "running")

\* C24 amended: as above, but --skip-pipeline still starts the services
\* only without --exit-after-deploy, and the terminal or log attach is
\* entered after each of port forwarding and sync that its flag enables was
\* started, and without the one its flag disables.
C24_DocumentedOrderOfEnabledSteps ==
    /\ DevStepOrder
    /\ SkipPipelineStartsServicesUnlessExit
    /\ [](InTerminalOrAttach =>
            /\ dev.portForwarder =
                  IF dev.cmd.Portforwarding THEN "open" ELSE "none"
            /\ dev.syncClient = IF dev.cmd.Sync THEN "running" ELSE "none"
            /\ dev.cmd.Portforwarding =>
                  \/ Before("portforwarding", "terminal")
                  \/ Before("portforwarding", "attach")
            /\ dev.cmd.Sync =>
                  Before("sync", "terminal") \/ Before("sync", "attach"))

\* The whole list ran: build, deploy, port forwarding, sync, terminal.
C24_Witness ==
    /\ dev.pc = "inTerminal"
    /\ Before("build", "deploy")
    /\ Before("deploy", "portforwarding")
    /\ Before("portforwarding", "sync")
    /\ Before("sync", "terminal")

\* C30: in one startServices invocation the send on the exit channel is
\* reached at most once, whatever callbacks the watcher delivers; after
\* startServices returned a reload error the pipeline is not skipped, the
\* config is loaded again and buildAndDeploy runs from its start with the
\* dependencies and the build; any other error becomes the result as it is.
C30_OneReloadSignal ==
    /\ [](dev.reloadSends <= 1)
    /\ [](dev.servicesErr = "reload" => dev.cmd.SkipPipeline = FALSE)
    /\ [][dev.pc = "servicesReturned" /\ dev'.pc # dev.pc =>
            IF dev.servicesErr = "reload"
            THEN dev'.pc = "loadConfig" /\ dev'.result = dev.result
            ELSE dev'.pc = "returned" /\ dev'.result = dev.servicesErr]_vars
    /\ [][dev.pc = "loadConfig" /\ dev'.pc # dev.pc =>
            dev'.pc \in {"buildAndDeploy", "fatal"}]_vars
    /\ [][dev.pc = "buildAndDeploy" /\ dev.reloads > 0 /\ dev'.pc # dev.pc =>
            dev'.pc \in {"build", "fatal"} /\ Ran("dependencies")']_vars

\* After a reload the pipeline ran again and startServices was called
\* again; in this invocation one callback sent the signal, which was
\* received, and with the watcher not yet stopped another callback found
\* the Once done and returned at once.
C30_Witness ==
    /\ dev.reloads = 1
    /\ Ran("build")
    /\ dev.reloadSends = 1
    /\ dev.servicesErr = "reload"
    /\ \E c \in Callbacks : dev.callbacks[c] = "returned"
    /\ \E c \in Callbacks : dev.callbacks[c] = "skipped"

(***************************************************************************)
(* Properties of package configutil, checked under SpecConfigutil.         *)
(***************************************************************************)
\* What the doc comments promise: the config of the file alone, and the
\* config merged with every override.
UnmergedConfig == Merge(New, configutil.files.base)

MergedConfig == loadBaseConfigFromPath(TRUE).config

\* C25: whatever was called before, GetBaseConfig returns the config
\* unmerged with the overrides and GetConfig returns the config merged with
\* all of them, where the overrides can be loaded and merged.
C25_BaseUnmergedConfigMerged ==
    /\ configutil.returned.fn = "GetBaseConfig" =>
          configutil.returned.value = UnmergedConfig
    /\ (/\ configutil.returned.fn = "GetConfig"
        /\ loadBaseConfigFromPath(TRUE).err = "nil") =>
          configutil.returned.value = MergedConfig

(***************************************************************************)
(* Properties of kubectl.ExecBuffered, checked under SpecKubectl.          *)
(***************************************************************************)
\* C26: when the command succeeded or ended with an exit code and no local
\* file operation failed, the call returns the bytes written to stdout, the
\* bytes written to stderr, and nil or the exit-code error; after any other
\* execution error it returns no buffers.
C26_BuffersHoldOutput ==
    kubectl.return.called =>
        /\ (/\ kubectl.input.kubeExecError # "error"
            /\ kubectl.input.ioError = "none")
              => /\ kubectl.return.stdout = kubectl.input.stdout
                 /\ kubectl.return.stderr = kubectl.input.stderr
                 /\ kubectl.return.err = kubectl.input.kubeExecError
        /\ (kubectl.input.kubeExecError = "error"
               /\ kubectl.input.ioError
                     \notin {"create stdout", "create stderr"})
              => /\ kubectl.return.stdout = Nil
                 /\ kubectl.return.stderr = Nil
                 /\ kubectl.return.err = "error"

(***************************************************************************)
(* Properties of the kaniko BuildImage, checked under SpecKaniko.          *)
(***************************************************************************)
\* The Dockerfile the build has to use: the temporary one with a non-empty
\* entrypoint override, the configured one without.
DockerfileToUse ==
    IF OverridesEntrypoint THEN TempDockerfile
    ELSE kaniko.args.dockerfilePath

\* C27: the build pod is generated for, and the build container receives,
\* the temporary Dockerfile when a non-empty entrypoint override is given
\* and the configured Dockerfile when none is given.
C27_OverrideDockerfileUsed ==
    /\ kaniko.buildPod # Nil => kaniko.buildPod.dockerfile = DockerfileToUse
    /\ Len(kaniko.copied) = 2 => kaniko.copied[2] = DockerfileToUse

(***************************************************************************)
(* Properties of helm.NewClient, checked under SpecHelm.                   *)
(***************************************************************************)
\* C29: at most one goroutine is in createNewClient; at most one creation
\* succeeds per namespace; a call that returns without error returns the
\* client stored for its namespace; a call for a namespace with a stored
\* client returns without creating, a call for a namespace without one
\* creates; and a failed creation leaves the map as it is.
C29_OneClientPerNamespace ==
    /\ [](Cardinality({g \in Goroutines : helm.pc[g] = "createNewClient"})
            <= 1)
    /\ [](\A ns \in TillerNamespaces : helm.creations[ns].ok <= 1)
    /\ [](\A g \in Goroutines :
            helm.return[g].err = "nil" =>
               /\ helm.tillerNamespace[g] \in DOMAIN helm.helmClients
               /\ helm.return[g].client =
                     helm.helmClients[helm.tillerNamespace[g]])
    /\ [][\A g \in Goroutines :
            (helm.pc[g] = "lookup" /\ helm'.pc[g] # "lookup") =>
               IF helm.tillerNamespace[g] \in DOMAIN helm.helmClients
               THEN helm'.pc[g] = "idle" /\ helm'.creations = helm.creations
               ELSE helm'.pc[g] = "createNewClient"]_vars
    /\ [][\A g \in Goroutines :
            (helm.pc[g] = "createNewClient" /\ helm'.return[g].err = "error")
               => helm'.helmClients = helm.helmClients]_vars

\* A creation for a namespace failed, the next one succeeded, and two
\* goroutines hold the same client for that namespace.
C29_Witness ==
    \E ns \in TillerNamespaces :
        /\ helm.creations[ns].failed > 0
        /\ helm.creations[ns].ok = 1
        /\ \A g \in Goroutines :
              /\ helm.tillerNamespace[g] = ns
              /\ helm.pc[g] = "idle"
              /\ helm.return[g].err = "nil"
              /\ helm.return[g].client = helm.helmClients[ns]

====
